---------------------------- MODULE Spec2Model ----------------------------
(***************************************************************************)
(* A model of the eir image pipeline (src/src/eir/processor.py):           *)
(* directory-name validation, listing, metadata extraction, classification *)
(* into buckets, sequential renaming and RAW -> DNG conversion.            *)
(*                                                                         *)
(* Strings are sequences of one-character strings, so that the string      *)
(* functions of the code (regular expressions, strptime, replace, strip,   *)
(* lower, splitext) are computed character by character.  The alphabet is  *)
(* ASCII: letters, digits and the punctuation listed in ASCII_ORDER.       *)
(***************************************************************************)
EXTENDS Integers, Sequences, FiniteSets, TLC

VARIABLES
    call,            \* the keyword arguments run_pipeline was called with
    op_dir,          \* ImageProcessor._op_dir, the directory given to run_pipeline
    home,            \* the working directory the run was started in (never changes)
    cwd,             \* base name of the process working directory (os.getcwd())
    current_dir,     \* ImageProcessor._current_dir (None until the chdir)
    project_name,    \* ImageProcessor._project_name (None until first used)
    pc,              \* position of process_images_reactive
    raised,          \* the exception the run ended with, "" when none
    io,              \* the file-system / collaborator operations issued, in order
    fs,              \* directory -> set of files; DOT is the image directory itself
    filtered_list,   \* the sorted candidate file names
    metadata_list,   \* the records the metadata provider returned
    units,           \* the classification units of the reactive stage
    list_collection, \* ListType -> directory -> list of metadata (insertion order)
    processed_count, \* the counter of log_progress
    completion,      \* completion_future: "pending", "result" or "error"
    group,           \* index of the file group being processed
    gstep,           \* position inside _process_file_group
    rename_tasks,    \* the rename coroutines not yet run
    rename_failures, \* number of renames that raised OSError so far
    convert_list,    \* the (raw dir, dng dir) pairs of _handle_raw_conversion
    jobs             \* state of each conversion task

vars == <<call, op_dir, home, cwd, current_dir, project_name, pc, raised, io, fs,
          filtered_list, metadata_list, units, list_collection, processed_count,
          completion, group, gstep, rename_tasks, rename_failures, convert_list,
          jobs>>

(***************************************************************************)
(* Characters                                                              *)
(***************************************************************************)
DIGITS == {"0","1","2","3","4","5","6","7","8","9"}

DIGITS19 == DIGITS \ {"0"}

UPPER == <<"A","B","C","D","E","F","G","H","I","J","K","L","M",
           "N","O","P","Q","R","S","T","U","V","W","X","Y","Z">>

LOWER == <<"a","b","c","d","e","f","g","h","i","j","k","l","m",
           "n","o","p","q","r","s","t","u","v","w","x","y","z">>

\* the characters of the model in ascending code-point order
ASCII_ORDER == <<"\t","\n"," ","-",".","/">>
               \o <<"0","1","2","3","4","5","6","7","8","9">>
               \o <<":">> \o UPPER \o <<"_">> \o LOWER

Range(f) == {f[i] : i \in DOMAIN f}

\* ord(c), up to an order-preserving renumbering
Ord(c) == CHOOSE i \in DOMAIN ASCII_ORDER : ASCII_ORDER[i] = c

\* regular-expression classes \d, \w, \s and [\w-] on the model's alphabet
RE_WORD == DIGITS \cup Range(UPPER) \cup Range(LOWER) \cup {"_"}

RE_SPACE == {" ", "\t", "\n"}

RE_WORD_DASH == RE_WORD \cup {"-"}

\* str.lower() of one character
LowerChar(c) ==
    IF c \in Range(UPPER)
    THEN LOWER[CHOOSE i \in DOMAIN UPPER : UPPER[i] = c]
    ELSE c

\* str.lower()
Lower(s) == [i \in DOMAIN s |-> LowerChar(s[i])]

\* s[from:] as a sequence (from is 1-based)
Drop(s, from) == SubSeq(s, from, Len(s))

\* s.startswith(p) at position pos
StartsAt(s, p, pos) ==
    /\ pos + Len(p) - 1 <= Len(s)
    /\ \A i \in 1..Len(p) : s[pos + i - 1] = p[i]

\* `p in s` for strings: substring test
Contains(s, p) == \E pos \in 1..(Len(s) + 1) : StartsAt(s, p, pos)

\* c in s for one character
HasChar(s, c) == \E i \in DOMAIN s : s[i] = c

RECURSIVE ReplaceFrom(_, _, _, _)
ReplaceFrom(s, old, new, pos) ==
    IF pos > Len(s) THEN <<>>
    ELSE IF StartsAt(s, old, pos)
         THEN new \o ReplaceFrom(s, old, new, pos + Len(old))
         ELSE <<s[pos]>> \o ReplaceFrom(s, old, new, pos + 1)

RECURSIVE Interleave(_, _)
Interleave(s, new) ==
    IF s = <<>> THEN new ELSE new \o <<Head(s)>> \o Interleave(Tail(s), new)

\* str.replace(old, new): every non-overlapping occurrence, left to right;
\* an empty `old` matches between all characters
Replace(s, old, new) ==
    IF old = <<>> THEN Interleave(s, new) ELSE ReplaceFrom(s, old, new, 1)

\* str.strip(): leading and trailing whitespace removed
Strip(s) ==
    LET keep == {i \in DOMAIN s : s[i] \notin RE_SPACE}
    IN  IF keep = {} THEN <<>>
        ELSE SubSeq(s, CHOOSE i \in keep : \A j \in keep : i <= j,
                       CHOOSE i \in keep : \A j \in keep : i >= j)

RECURSIVE StrLess(_, _)
\* a < b for strings (code-point lexicographic order)
StrLess(a, b) ==
    IF b = <<>> THEN FALSE
    ELSE IF a = <<>> THEN TRUE
    ELSE IF Head(a) # Head(b) THEN Ord(Head(a)) < Ord(Head(b))
    ELSE StrLess(Tail(a), Tail(b))

RECURSIVE ToInt(_)
\* int(s) of a string of digits (surrounding blanks ignored, as int() does)
ToInt(s) ==
    IF s = <<>> THEN 0
    ELSE LET c == s[Len(s)]
             rest == SubSeq(s, 1, Len(s) - 1)
         IN  IF c \in DIGITS THEN 10 * ToInt(rest) + (Ord(c) - Ord("0"))
             ELSE ToInt(rest)

\* index of the last occurrence of character c in s, 0 when absent (str.rfind + 1)
RFind(s, c) ==
    IF HasChar(s, c)
    THEN CHOOSE i \in DOMAIN s : s[i] = c /\ \A j \in DOMAIN s : s[j] = c => j <= i
    ELSE 0

\* index of the first occurrence of character c in s, 0 when absent
Find(s, c) ==
    IF HasChar(s, c)
    THEN CHOOSE i \in DOMAIN s : s[i] = c /\ \A j \in DOMAIN s : s[j] = c => j >= i
    ELSE 0

(***************************************************************************)
(* A backtracking matcher for the regular expressions the code uses.  A    *)
(* pattern is a sequence of tokens; a token is a choice among sequences of *)
(* character classes (tried in order), a greedy class+ , or the anchor $.  *)
(***************************************************************************)
TokAlt(alts) == [kind |-> "alt", alts |-> alts, cls |-> {}]

TokPlus(cls) == [kind |-> "plus", alts |-> <<>>, cls |-> cls]

TokEnd == [kind |-> "end", alts |-> <<>>, cls |-> {}]

TokLit(c) == TokAlt(<< <<{c}>> >>)

NoMatch == <<0>>

\* the sequence of classes `alt` matches s at pos
ClassesMatchAt(alt, s, pos) ==
    /\ pos + Len(alt) - 1 <= Len(s)
    /\ \A i \in 1..Len(alt) : s[pos + i - 1] \in alt[i]

RECURSIVE AltEnds(_, _, _)
AltEnds(alts, s, pos) ==
    IF alts = <<>> THEN <<>>
    ELSE (IF ClassesMatchAt(Head(alts), s, pos)
          THEN <<pos + Len(Head(alts))>> ELSE <<>>)
         \o AltEnds(Tail(alts), s, pos)

\* number of consecutive characters of class cls from pos on
RECURSIVE RunLength(_, _, _)
RunLength(cls, s, pos) ==
    IF pos <= Len(s) /\ s[pos] \in cls THEN 1 + RunLength(cls, s, pos + 1) ELSE 0

\* the positions after a token matched at pos, in the order the matcher tries them
Candidates(tok, s, pos) ==
    IF tok.kind = "alt" THEN AltEnds(tok.alts, s, pos)
    ELSE IF tok.kind = "plus"
    THEN LET n == RunLength(tok.cls, s, pos)
         IN  [k \in 1..n |-> pos + n - k + 1]
    ELSE \* "$": at the end, or just before a final newline
         IF pos = Len(s) + 1 \/ (pos = Len(s) /\ s[Len(s)] = "\n")
         THEN <<pos>> ELSE <<>>

RECURSIVE ReMatch(_, _, _)
RECURSIVE TryEach(_, _, _)
\* re.match: the end position of every token for the first match found, or NoMatch
ReMatch(toks, s, pos) ==
    IF toks = <<>> THEN <<>>
    ELSE TryEach(Candidates(Head(toks), s, pos), Tail(toks), s)

TryEach(cands, rest, s) ==
    IF cands = <<>> THEN NoMatch
    ELSE LET r == ReMatch(rest, s, Head(cands))
         IN  IF r # NoMatch THEN <<Head(cands)>> \o r
             ELSE TryEach(Tail(cands), rest, s)

(***************************************************************************)
(* datetime.strptime                                                       *)
(***************************************************************************)
D == DIGITS

\* _strptime's regular expressions for %Y, %m, %d, %H, %M, %S
RE_Y == TokAlt(<< <<D, D, D, D>> >>)

RE_m == TokAlt(<< <<{"1"}, {"0","1","2"}>>, <<{"0"}, DIGITS19>>, <<DIGITS19>> >>)

RE_d == TokAlt(<< <<{"3"}, {"0","1"}>>, <<{"1","2"}, D>>, <<{"0"}, DIGITS19>>,
                  <<DIGITS19>>, <<{" "}, DIGITS19>> >>)

RE_H == TokAlt(<< <<{"2"}, {"0","1","2","3"}>>, <<{"0","1"}, D>>, <<D>> >>)

RE_M == TokAlt(<< <<{"0","1","2","3","4","5"}, D>>, <<D>> >>)

RE_S == TokAlt(<< <<{"6"}, {"0","1"}>>, <<{"0","1","2","3","4","5"}, D>>, <<D>> >>)

MINYEAR == 1

IsLeap(y) == (y % 4 = 0) /\ ((y % 100 # 0) \/ (y % 400 = 0))

DaysInMonth(y, m) ==
    IF m = 2 THEN (IF IsLeap(y) THEN 29 ELSE 28)
    ELSE IF m \in {4, 6, 9, 11} THEN 30 ELSE 31

\* datetime(y, m, d, H, M, S) does not raise
DatetimeOk(y, m, d, H, M, S) ==
    /\ y >= MINYEAR
    /\ m \in 1..12
    /\ d \in 1..DaysInMonth(y, m)
    /\ H \in 0..23 /\ M \in 0..59 /\ S \in 0..59

\* datetime.strptime(s, "%Y%m%d") returns (TRUE) or raises ValueError (FALSE)
strptime_Ymd(s) ==
    LET e == ReMatch(<<RE_Y, RE_m, RE_d>>, s, 1)
    IN  /\ e # NoMatch
        /\ e[3] = Len(s) + 1                \* else "unconverted data remains"
        /\ DatetimeOk(ToInt(SubSeq(s, 1, e[1] - 1)),
                      ToInt(SubSeq(s, e[1], e[2] - 1)),
                      ToInt(SubSeq(s, e[2], e[3] - 1)), 0, 0, 0)

\* datetime.strptime(s, "%Y:%m:%d %H:%M:%S") returns (TRUE) or raises ValueError
strptime_exif(s) ==
    LET toks == <<RE_Y, TokLit(":"), RE_m, TokLit(":"), RE_d, TokPlus(RE_SPACE),
                  RE_H, TokLit(":"), RE_M, TokLit(":"), RE_S>>
        e == ReMatch(toks, s, 1)
    IN  /\ e # NoMatch
        /\ e[11] = Len(s) + 1
        /\ DatetimeOk(ToInt(SubSeq(s, 1, e[1] - 1)),
                      ToInt(SubSeq(s, e[2], e[3] - 1)),
                      ToInt(SubSeq(s, e[4], e[5] - 1)),
                      ToInt(SubSeq(s, e[6], e[7] - 1)),
                      ToInt(SubSeq(s, e[8], e[9] - 1)),
                      ToInt(SubSeq(s, e[10], e[11] - 1)))

(***************************************************************************)
(* Paths                                                                   *)
(***************************************************************************)
DOT == <<".">>

RECURSIVE SplitPath(_)
\* p.split("/")
SplitPath(p) ==
    LET k == Find(p, "/")
    IN  IF k = 0 THEN <<p>>
        ELSE <<SubSeq(p, 1, k - 1)>> \o SplitPath(Drop(p, k + 1))


RECURSIVE NormComps(_, _, _)
\* the loop of posixpath.normpath over the components: "" and "." are
\* skipped, ".." removes the component before it unless there is none (it is
\* kept in a relative path, dropped in an absolute one) or that is ".." too
NormComps(comps, new_comps, initial_slashes) ==
    IF comps = <<>> THEN new_comps
    ELSE LET comp == Head(comps)
             n == Len(new_comps)
         IN  IF comp = <<>> \/ comp = DOT
             THEN NormComps(Tail(comps), new_comps, initial_slashes)
             ELSE IF \/ comp # <<".", ".">>
                     \/ (~initial_slashes /\ n = 0)
                     \/ (n > 0 /\ new_comps[n] = <<".", ".">>)
             THEN NormComps(Tail(comps), Append(new_comps, comp), initial_slashes)
             ELSE IF n > 0
             THEN NormComps(Tail(comps), SubSeq(new_comps, 1, n - 1), initial_slashes)
             ELSE NormComps(Tail(comps), new_comps, initial_slashes)

\* os.path.basename(os.path.normpath(p)): the last component of the
\* normalized path, "." for a relative path that normalizes to nothing, ""
\* for the root
LastPart(p) ==
    LET initial_slashes == p # <<>> /\ p[1] = "/"
        new_comps == NormComps(SplitPath(p), <<>>, initial_slashes)
    IN  IF new_comps # <<>> THEN new_comps[Len(new_comps)]
        ELSE IF initial_slashes THEN <<>>
        ELSE DOT

\* os.path.basename(p)
Basename(p) == Drop(p, RFind(p, "/") + 1)

(***************************************************************************)
(* ImageProcessor._validate_image_dir                                      *)
(***************************************************************************)
RE_8DIGITS == <<D, D, D, D, D, D, D, D>>

\* ^(\d{8}(?:-\d{8})?)_[\w-]+$
DIR_REGEX == <<TokAlt(<<RE_8DIGITS>>),
               TokAlt(<< <<{"-"}>> \o RE_8DIGITS, <<>> >>),
               TokLit("_"),
               TokPlus(RE_WORD_DASH),
               TokEnd>>

\* the name that is validated: the last part of op_dir, or of the working
\* directory when op_dir is "."
dir_name_to_validate == IF op_dir # DOT THEN op_dir ELSE cwd

\* _validate_image_dir without the comparison of lines 557-560
validate_image_dir_unordered(last_part_of_dir) ==
    LET e == ReMatch(DIR_REGEX, last_part_of_dir, 1)
        date_part == SubSeq(last_part_of_dir, 1, e[2] - 1)
        k == Find(date_part, "-")
    IN  /\ e # NoMatch
        /\ IF HasChar(date_part, "-")
           THEN /\ strptime_Ymd(SubSeq(date_part, 1, k - 1))
                /\ strptime_Ymd(Drop(date_part, k + 1))
           ELSE strptime_Ymd(date_part)

\* TRUE when _validate_image_dir returns, FALSE when it raises
\* ValueError("Invalid directory format...")
validate_image_dir(last_part_of_dir) ==
    LET e == ReMatch(DIR_REGEX, last_part_of_dir, 1)
        date_part == SubSeq(last_part_of_dir, 1, e[2] - 1)
        k == Find(date_part, "-")
        start_date == SubSeq(date_part, 1, k - 1)
        end_date == Drop(date_part, k + 1)
    IN  /\ e # NoMatch
        /\ IF HasChar(date_part, "-")
           THEN /\ strptime_Ymd(start_date)
                /\ strptime_Ymd(end_date)
                /\ ~StrLess(end_date, start_date)
           ELSE strptime_Ymd(date_part)


(***************************************************************************)
(* Class constants of ImageProcessor                                       *)
(***************************************************************************)
\* ListType values
RAW_IMAGE_DICT == "raw_image_dict"

THUMB_IMAGE_DICT == "thumb_image_dict"

COMPRESSED_IMAGE_DICT == "compressed_image_dict"

COMPRESSED_VIDEO_DICT == "compressed_video_dict"

\* THMB = {"ext": "jpg", "dir": "thmb"}
THMB == [ext |-> <<"j","p","g">>, dir |-> <<"t","h","m","b">>]

\* the manufacturer table, in its committed (dict insertion) order
SUPPORTED_RAW_IMAGE_EXT ==
    << [make |-> <<"A","d","o","b","e">>,
        exts |-> << <<"d","n","g">> >>],
       [make |-> <<"C","a","n","o","n">>,
        exts |-> << <<"c","r","w">>, <<"c","r","2">>, <<"c","r","3">> >>],
       [make |-> <<"F","u","j","i","F","i","l","m">>,
        exts |-> << <<"r","a","f">> >>],
       [make |-> <<"L","e","i","c","a">>,
        exts |-> << <<"r","w","l">> >>],
       [make |-> <<"M","i","n","o","l","t","a">>,
        exts |-> << <<"m","r","w">> >>],
       [make |-> <<"N","i","k","o","n">>,
        exts |-> << <<"n","e","f">>, <<"n","r","w">> >>],
       [make |-> <<"O","l","y","m","p","u","s">>,
        exts |-> << <<"o","r","w">> >>],
       [make |-> <<"P","a","n","a","s","o","n","i","c">>,
        exts |-> << <<"r","a","w">>, <<"r","w","2">> >>],
       [make |-> <<"P","e","n","t","a","x">>,
        exts |-> << <<"p","e","f">> >>],
       [make |-> <<"S","a","m","s","u","n","g">>,
        exts |-> << <<"s","r","w">> >>],
       [make |-> <<"S","o","n","y">>,
        exts |-> << <<"a","r","w">>, <<"s","r","2">> >>] >>

SUPPORTED_COMPRESSED_IMAGE_EXT_LIST ==
    << <<"g","i","f">>, <<"h","e","i","c">>, <<"j","p","g">>, <<"j","p","e","g">>,
       <<"j","n","g">>, <<"m","n","g">>, <<"p","n","g">>, <<"p","s","d">>,
       <<"t","i","f","f">>, <<"t","i","f">> >>

SUPPORTED_COMPRESSED_VIDEO_EXT_LIST ==
    << <<"3","g","2">>, <<"3","g","p","2">>, <<"c","r","m">>, <<"m","4","a">>,
       <<"m","4","b">>, <<"m","4","p">>, <<"m","4","v">>, <<"m","o","v">>,
       <<"m","p","4">>, <<"m","q","v">>, <<"q","t">> >>

EXIF_UNKNOWN == <<"u","n","k","n","o","w","n">>

\* self._supported_raw_image_ext_list: every extension of the table (as a
\* set: the code builds it with list(set(...)) and only tests membership)
supported_raw_image_ext_list ==
    UNION {Range(SUPPORTED_RAW_IMAGE_EXT[i].exts) : i \in DOMAIN SUPPORTED_RAW_IMAGE_EXT}

(***************************************************************************)
(* Metadata records.  A record has the four tags the pipeline reads; a tag *)
(* the provider did not return is ABSENT, a tag whose JSON value is not a  *)
(* string (ExifTool prints numeric-looking values as numbers) is NONSTR    *)
(* when Python takes it for true (5, 2024.5, True) and NONSTR_FALSY when   *)
(* Python takes it for false (0, 0.0, False, None, []).                    *)
(***************************************************************************)
ABSENT == <<"<absent>">>

NONSTR == <<"<number>">>

NONSTR_FALSY == <<"<zero>">>

Meta(src, date, make, model) ==
    [SourceFile |-> src, CreateDate |-> date, Make |-> make, Model |-> model]

\* dict.get(key, default)
Get(value, default) == IF value = ABSENT THEN default ELSE value

\* os.path.splitext(name) for a name without separators: <<root, ext>>;
\* leading dots do not start an extension
SplitExt(name) ==
    LET dotIndex == RFind(name, ".")
    IN  IF dotIndex > 0 /\ \E i \in 1..(dotIndex - 1) : name[i] # "."
        THEN <<SubSeq(name, 1, dotIndex - 1), Drop(name, dotIndex)>>
        ELSE <<name, <<>> >>

\* _extract_directory_info()[0]: the date before the first "_" of the
\* directory name, cut at its first "-"
extract_directory_info(dir_name) ==
    LET last_part_of_dir == LastPart(dir_name)
        u == Find(last_part_of_dir, "_")
        date_part == IF u = 0 THEN last_part_of_dir
                     ELSE SubSeq(last_part_of_dir, 1, u - 1)
        h == Find(date_part, "-")
    IN  IF h > 0 THEN SubSeq(date_part, 1, h - 1) ELSE date_part

\* lines 619-626 comparing the names as they are, not lower-cased
ListTypeOf_case_sensitive(file_base, file_extension, file_list) ==
    IF file_extension \in supported_raw_image_ext_list THEN RAW_IMAGE_DICT
    ELSE IF file_extension \in Range(SUPPORTED_COMPRESSED_IMAGE_EXT_LIST)
    THEN IF file_extension = THMB.ext
         THEN IF \E raw_ext \in supported_raw_image_ext_list :
                    (file_base \o <<".">> \o raw_ext) \in Range(file_list)
              THEN THUMB_IMAGE_DICT
              ELSE COMPRESSED_IMAGE_DICT
         ELSE COMPRESSED_IMAGE_DICT
    ELSE IF file_extension \in Range(SUPPORTED_COMPRESSED_VIDEO_EXT_LIST)
    THEN COMPRESSED_VIDEO_DICT
    ELSE ""

\* the ListType of an extension, "" when the extension is in no table
\* (lines 616-631); a jpg is a thumbnail when <base>.<raw ext> is in the
\* lower-cased filtered list
ListTypeOf(file_base, file_extension, file_list) ==
    IF file_extension \in supported_raw_image_ext_list THEN RAW_IMAGE_DICT
    ELSE IF file_extension \in Range(SUPPORTED_COMPRESSED_IMAGE_EXT_LIST)
    THEN IF file_extension = THMB.ext
         THEN IF \E raw_ext \in supported_raw_image_ext_list :
                    (Lower(file_base) \o <<".">> \o raw_ext)
                        \in {Lower(file_list[j]) : j \in DOMAIN file_list}
              THEN THUMB_IMAGE_DICT
              ELSE COMPRESSED_IMAGE_DICT
         ELSE COMPRESSED_IMAGE_DICT
    ELSE IF file_extension \in Range(SUPPORTED_COMPRESSED_VIDEO_EXT_LIST)
    THEN COMPRESSED_VIDEO_DICT
    ELSE ""

\* lines 636-656: the value stored in metadata["EXIF:CreateDate"]
NormalizeDate(exif_date, fallback_date) ==
    IF exif_date \notin {<<>>, NONSTR_FALSY} /\ exif_date # EXIF_UNKNOWN
    THEN IF strptime_exif(exif_date)
         THEN Replace(Replace(exif_date, <<":">>, <<>>), <<" ">>, <<"-">>)
         ELSE fallback_date
    ELSE fallback_date

RECURSIVE FirstMake(_, _)
\* next(key for key, value in table if any(ext in file_extension ...), unknown)
FirstMake(table, file_extension) ==
    IF table = <<>> THEN EXIF_UNKNOWN
    ELSE IF \E e \in Range(Head(table).exts) : Contains(file_extension, e)
         THEN Head(table).make
         ELSE FirstMake(Tail(table), file_extension)

\* lines 657-672 without the lookup of lines 662-672
NormalizeMake_no_inference(make, list_type, file_extension) ==
    Replace(Get(make, EXIF_UNKNOWN), <<" ">>, <<>>)

\* lines 657-672: the value stored in metadata["EXIF:Make"]
NormalizeMake(make, list_type, file_extension) ==
    LET m == Replace(Get(make, EXIF_UNKNOWN), <<" ">>, <<>>)
    IN  IF m = EXIF_UNKNOWN /\ list_type = RAW_IMAGE_DICT
        THEN FirstMake(SUPPORTED_RAW_IMAGE_EXT, file_extension)
        ELSE m

\* lines 674-684 without the .strip() of line 682
NormalizeModel_unstripped(model, make) ==
    LET m == Replace(Get(model, EXIF_UNKNOWN), <<" ">>, <<>>)
    IN  IF Contains(m, make) /\ make # EXIF_UNKNOWN
        THEN Replace(m, make, <<>>)
        ELSE m

\* lines 674-684: the value stored in metadata["EXIF:Model"]
NormalizeModel(model, make) ==
    LET m == Replace(Get(model, EXIF_UNKNOWN), <<" ">>, <<>>)
    IN  IF Contains(m, make) /\ make # EXIF_UNKNOWN
        THEN Strip(Replace(m, make, <<>>))
        ELSE m

\* "_".join(dir_parts).lower()
DirName(make, model, file_extension) ==
    Lower(make \o <<"_">> \o model \o <<"_">> \o file_extension)

(***************************************************************************)
(* ImageProcessor._process_metadata.  The result tells whether the call    *)
(* raised, whether it returned a tuple (classified) or None, the tuple,    *)
(* and the metadata dict as the call left it: the dict is updated in place *)
(* tag by tag, so a call that raises half way leaves it half updated.      *)
(***************************************************************************)
MetaResult(exc, classified, list_type, dir_name, metadata) ==
    [raised |-> exc, classified |-> classified, list_type |-> list_type,
     dir_name |-> dir_name, metadata |-> metadata]

process_metadata(metadata, file_list, fallback_date) ==
    LET file_name == metadata.SourceFile
        parts == SplitExt(Basename(file_name))
        file_base == parts[1]
        ext0 == Lower(Replace(parts[2], <<".">>, <<>>))
        list_type == ListTypeOf(file_base, ext0, file_list)
        file_extension == IF list_type = THUMB_IMAGE_DICT THEN THMB.dir ELSE ext0
        exif_date == Get(metadata.CreateDate, <<>>)
        m1 == [metadata EXCEPT !.CreateDate = NormalizeDate(exif_date, fallback_date)]
        make == NormalizeMake(metadata.Make, list_type, file_extension)
        m2 == [m1 EXCEPT !.Make = make]
        model == NormalizeModel(metadata.Model, make)
        m3 == [m2 EXCEPT !.Model = model]
    IN  IF file_name \in {ABSENT, <<>>, NONSTR_FALSY}           \* not file_name
        THEN MetaResult(FALSE, FALSE, "", <<>>, metadata)       \* return None
        ELSE IF file_name = NONSTR
        THEN MetaResult(TRUE, FALSE, "", <<>>, metadata)        \* TypeError
        ELSE IF list_type = ""
        THEN MetaResult(FALSE, FALSE, "", <<>>, metadata)       \* return None
        ELSE IF exif_date = NONSTR
        THEN MetaResult(TRUE, FALSE, "", <<>>, metadata)        \* TypeError
        ELSE IF metadata.Make \in {NONSTR, NONSTR_FALSY}
        THEN MetaResult(TRUE, FALSE, "", <<>>, m1)              \* AttributeError
        ELSE IF metadata.Model \in {NONSTR, NONSTR_FALSY}
        THEN MetaResult(TRUE, FALSE, "", <<>>, m2)              \* AttributeError
        ELSE MetaResult(FALSE, TRUE, list_type,
                        DirName(make, model, file_extension), m3)


(***************************************************************************)
(* The image directory and the metadata provider                           *)
(***************************************************************************)
None == <<"<None>">>

\* a file: its name in its directory and the original it holds (the name
\* the content had in the image directory when the run started)
File(name, src) == [name |-> name, src |-> src]

Names(files) == {f.name : f \in files}

\* a sequence of singleton classes matching the string s literally
Lits(s) == [i \in DOMAIN s |-> {s[i]}]

\* "." of a regular expression: any character but a newline
RE_ANY == Range(ASCII_ORDER) \ {"\n"}

\* FILES_TO_EXCLUDE_EXPRESSION = r"Adobe Bridge Cache|Thumbs.db|^\."
FILES_TO_EXCLUDE_EXPRESSION ==
    TokAlt(<< Lits(<<"A","d","o","b","e"," ","B","r","i","d","g","e"," ","C","a","c","h","e">>),
              Lits(<<"T","h","u","m","b","s">>) \o <<RE_ANY>> \o Lits(<<"d","b">>),
              <<{"."}>> >>)

\* re.match(FILES_TO_EXCLUDE_EXPRESSION, name) is not None
Excluded(name) == ReMatch(<<FILES_TO_EXCLUDE_EXPRESSION>>, name, 1) # NoMatch

RECURSIVE Sorted(_)
\* sorted(names)
Sorted(S) ==
    IF S = {} THEN <<>>
    ELSE LET m == CHOOSE x \in S : \A y \in S \ {x} : StrLess(x, y)
         IN  <<m>> \o Sorted(S \ {m})

\* line 731 without the exclusion test
FilteredList_unfiltered(files) == Sorted(Names(files))

\* lines 725-732: the regular files of the directory, exclusions removed, sorted
FilteredList(files) == Sorted({n \in Names(files) : ~Excluded(n)})

\* the files an image directory of the model may hold, each with the tags
\* ExifTool reads from it
DATE_A == <<"2","0","2","4",":","1","2",":","1","0"," ","1","4",":","3","0",":","0","5">>

DATE_B == <<"2","0","2","4",":","1","2",":","1","0"," ","1","4",":","3","1",":","0","0">>

CANON == <<"C","a","n","o","n">>

CANON_R5 == <<"C","a","n","o","n"," ","E","O","S"," ","R","5">>

NIKON == <<"N","I","K","O","N"," ","C","O","R","P","O","R","A","T","I","O","N">>

NIKON_D850 == <<"N","I","K","O","N"," ","D","8","5","0">>

FILE_UNIVERSE ==
    << [name |-> <<"I","M","G","1",".","C","R","2">>,
        date |-> DATE_A, make |-> CANON, model |-> CANON_R5],
       [name |-> <<"I","M","G","1",".","J","P","G">>,
        date |-> DATE_A, make |-> CANON, model |-> CANON_R5],
       [name |-> <<"I","M","G","2",".","J","P","G">>,
        date |-> ABSENT, make |-> ABSENT, model |-> ABSENT],
       [name |-> <<"I","M","G","3",".","C","R","2">>,
        date |-> DATE_B, make |-> CANON, model |-> NONSTR],
       [name |-> <<"I","M","G","4",".","N","E","F">>,
        date |-> DATE_B, make |-> NIKON, model |-> NIKON_D850],
       [name |-> <<"I","M","G","5",".","d","n","g">>,
        date |-> DATE_A, make |-> CANON, model |-> CANON_R5],
       [name |-> <<"I","M","G","6",".","C","R","2">>,
        date |-> ABSENT, make |-> CANON, model |-> CANON_R5],
       [name |-> <<"n","o","t","e","s",".","t","x","t">>,
        date |-> ABSENT, make |-> ABSENT, model |-> ABSENT],
       [name |-> <<".","D","S","_","S","t","o","r","e">>,
        date |-> ABSENT, make |-> ABSENT, model |-> ABSENT],
       [name |-> <<"T","h","u","m","b","s",".","d","b">>,
        date |-> ABSENT, make |-> ABSENT, model |-> ABSENT] >>

\* the record ExifTool returns for a file of the universe
ExifOf(name) ==
    LET u == CHOOSE u \in Range(FILE_UNIVERSE) : u.name = name
    IN  Meta(name, u.date, u.make, u.model)

\* extract_exif_metadata: one record per path, in the order of the paths
extract_exif_metadata(files_list) == [i \in DOMAIN files_list |-> ExifOf(files_list[i])]

(***************************************************************************)
(* Bounds and inputs of the pipeline specification                         *)
(***************************************************************************)
\* at most this many files in the image directory
MaxFiles == 2

\* at most this many renames fail with OSError in one run
MaxRenameFailures == 1

WORK == <<"w","o","r","k">>

DIR_TRIP == <<"2","0","2","4","1","2","1","0","_","t","r","i","p">>

DIR_SHORT == <<"2","0","2","4","1","2","1","_","t","r","i","p">>

\* <<op_dir, working directory at the start>>
PipelineDirs == {<<DIR_TRIP, WORK>>, <<DIR_SHORT, WORK>>, <<DOT, DIR_TRIP>>}

PipelineFileSets ==
    {S \in SUBSET {FILE_UNIVERSE[i].name : i \in DOMAIN FILE_UNIVERSE} :
        Cardinality(S) <= MaxFiles}

\* run_pipeline(logger=..., image_dir=..., dng_compression=..., dng_preview=...):
\* the keyword arguments of a call, ABSENT for one that is not passed
CallWith(image_dir, dng_compression, dng_preview) ==
    [image_dir |-> image_dir, dng_compression |-> dng_compression,
     dng_preview |-> dng_preview]

\* the parameters of run_pipeline besides logger (line 878)
RUN_PIPELINE_PARAMETERS == {"image_dir"}

(***************************************************************************)
(* The state after ImageProcessor(logger, op_dir) was constructed in the   *)
(* working directory start, the image directory holding the files `names`  *)
(***************************************************************************)
InitWith(dir, start, names) ==
    /\ call = CallWith(dir, ABSENT, ABSENT)
    /\ op_dir = dir
    /\ home = start
    /\ cwd = start
    /\ current_dir = None
    /\ project_name = None
    /\ pc = "validate"
    /\ raised = ""
    /\ io = <<>>
    /\ fs = [d \in {DOT} |-> {File(n, n) : n \in names}]
    /\ filtered_list = <<>>
    /\ metadata_list = <<>>
    /\ units = <<>>
    /\ list_collection = <<>>
    /\ processed_count = 0
    /\ completion = "none"
    /\ group = 0
    /\ gstep = ""
    /\ rename_tasks = <<>>
    /\ rename_failures = 0
    /\ convert_list = <<>>
    /\ jobs = <<>>

Init == \E d \in PipelineDirs, names \in PipelineFileSets : InitWith(d[1], d[2], names)

(***************************************************************************)
(* process_images_reactive, step by step                                   *)
(***************************************************************************)
classVars == <<units, list_collection, processed_count, completion>>

groupVars == <<group, gstep, rename_tasks, rename_failures, convert_list, jobs>>

\* no finally clause: the working directory stays where the run left it
CwdAfterFinally_stays == cwd

\* _change_from_image_dir, run by the finally clause on every way out of the try
CwdAfterFinally == IF current_dir # None THEN current_dir ELSE cwd

IoAfterFinally(log) == IF current_dir # None THEN Append(log, "chdir_back") ELSE log

\* process_images_reactive with lines 719 and 720 exchanged
ValidateImageDir_after_chdir ==
    /\ pc = "validate"
    /\ IF validate_image_dir(LastPart(dir_name_to_validate))
       THEN /\ pc' = "chdir"
            /\ UNCHANGED <<raised, io, cwd, current_dir>>
       ELSE /\ pc' = "validation_failed"
            /\ raised' = "InvalidDirectoryFormat"
            /\ IF op_dir # DOT
               THEN /\ current_dir' = cwd
                    /\ cwd' = LastPart(op_dir)
                    /\ io' = Append(io, "chdir")
               ELSE UNCHANGED <<io, cwd, current_dir>>
    /\ UNCHANGED <<call, op_dir, home, project_name, fs, filtered_list, metadata_list,
                   classVars, groupVars>>

\* line 719: self._validate_image_dir()
ValidateImageDir ==
    /\ pc = "validate"
    /\ IF validate_image_dir(LastPart(dir_name_to_validate))
       THEN pc' = "chdir" /\ raised' = raised
       ELSE pc' = "validation_failed" /\ raised' = "InvalidDirectoryFormat"
    /\ UNCHANGED <<call, op_dir, home, cwd, current_dir, project_name, io, fs,
                   filtered_list, metadata_list, classVars, groupVars>>

\* line 720: self._change_to_image_dir(); os.chdir may raise (outside the try)
ChangeToImageDir ==
    /\ pc = "chdir"
    /\ IF op_dir # DOT
       THEN /\ current_dir' = cwd
            /\ io' = Append(io, "chdir")
            /\ \/ cwd' = LastPart(op_dir) /\ pc' = "list" /\ raised' = raised
               \/ cwd' = cwd /\ pc' = "failed" /\ raised' = "OSError"
       ELSE /\ pc' = "list"
            /\ UNCHANGED <<current_dir, io, cwd, raised>>
    /\ UNCHANGED <<call, op_dir, home, project_name, fs, filtered_list, metadata_list,
                   classVars, groupVars>>

\* lines 725-739: list the directory, filter, sort; return when nothing is left
ListFiles ==
    /\ pc = "list"
    /\ \/ /\ filtered_list' = FilteredList(fs[DOT])
          /\ IF filtered_list' = <<>>
             THEN /\ pc' = "no_unprocessed"
                  /\ cwd' = CwdAfterFinally
                  /\ io' = IoAfterFinally(Append(io, "listdir"))
             ELSE /\ pc' = "extract"
                  /\ cwd' = cwd
                  /\ io' = Append(io, "listdir")
          /\ raised' = raised
       \/ \* os.listdir raises
          /\ pc' = "failed"
          /\ raised' = "OSError"
          /\ cwd' = CwdAfterFinally
          /\ io' = IoAfterFinally(Append(io, "listdir"))
          /\ UNCHANGED filtered_list
    /\ UNCHANGED <<call, op_dir, home, current_dir, project_name, fs, metadata_list,
                   classVars, groupVars>>

\* line 742: metadata_list = await self.extract_exif_metadata(filtered_list);
\* the provider may return fewer records than paths, or raise
ExtractMetadata ==
    /\ pc = "extract"
    /\ \/ /\ metadata_list' \in {extract_exif_metadata(filtered_list), <<>>}
          /\ pc' = "subscribe"
          /\ io' = Append(io, "extract")
          /\ UNCHANGED <<cwd, raised>>
       \/ /\ pc' = "failed"
          /\ raised' = "ProviderError"
          /\ cwd' = CwdAfterFinally
          /\ io' = IoAfterFinally(Append(io, "extract"))
          /\ UNCHANGED metadata_list
    /\ UNCHANGED <<call, op_dir, home, current_dir, project_name, fs, filtered_list,
                   classVars, groupVars>>

(***************************************************************************)
(* The reactive classification stage (lines 744-804).  Every metadata      *)
(* record is one unit: rx.of(metadata) subscribed on the event loop,       *)
(* mapped through process_metadata_item, retried, caught, filtered and     *)
(* counted.  Units run one at a time on the loop, in any order.            *)
(***************************************************************************)
\* ops.retry(2): the source is subscribed to until it completes, at most
\* retry_count times in all
RETRY_COUNT == 2

NoItem == [list_type |-> "", dir_name |-> <<>>]

\* a unit: the dict it was created with (updated in place by
\* _process_metadata), the number of runs so far, its state, and the item
\* it emitted
Unit(metadata) ==
    [metadata |-> metadata, attempts |-> 0, state |-> "scheduled", item |-> NoItem]

\* as AddToCollection, except that the record is put in front of its list
AddToCollection_prepend(lc, list_type, dir_name, md) ==
    IF \E g \in DOMAIN lc : lc[g].key = list_type
    THEN LET g == CHOOSE g \in DOMAIN lc : lc[g].key = list_type
             value == lc[g].value
         IN  IF \E d \in DOMAIN value : value[d].directory = dir_name
             THEN LET d == CHOOSE d \in DOMAIN value : value[d].directory = dir_name
                  IN  [lc EXCEPT ![g].value[d].obj_list = <<md>> \o @]
             ELSE [lc EXCEPT ![g].value =
                      Append(@, [directory |-> dir_name, obj_list |-> <<md>>])]
    ELSE Append(lc, [key |-> list_type,
                     value |-> <<[directory |-> dir_name, obj_list |-> <<md>>]>>])

\* list_collection.setdefault(list_type, {}).setdefault(dir_name, []).append(md)
AddToCollection(lc, list_type, dir_name, md) ==
    IF \E g \in DOMAIN lc : lc[g].key = list_type
    THEN LET g == CHOOSE g \in DOMAIN lc : lc[g].key = list_type
             value == lc[g].value
         IN  IF \E d \in DOMAIN value : value[d].directory = dir_name
             THEN LET d == CHOOSE d \in DOMAIN value : value[d].directory = dir_name
                  IN  [lc EXCEPT ![g].value[d].obj_list = Append(@, md)]
             ELSE [lc EXCEPT ![g].value =
                      Append(@, [directory |-> dir_name, obj_list |-> <<md>>])]
    ELSE Append(lc, [key |-> list_type,
                     value |-> <<[directory |-> dir_name, obj_list |-> <<md>>]>>])

\* the directory name _extract_directory_info reads the fallback date from
dir_name_to_extract == IF op_dir # DOT THEN op_dir ELSE cwd

\* lines 745-801: build the pipeline and subscribe; an empty list completes at once
Subscribe ==
    /\ pc = "subscribe"
    /\ units' = [i \in DOMAIN metadata_list |-> Unit(metadata_list[i])]
    /\ list_collection' = <<>>
    /\ processed_count' = 0
    /\ completion' = IF metadata_list = <<>> THEN "result" ELSE "pending"
    /\ pc' = "wait"
    /\ UNCHANGED <<call, op_dir, home, cwd, current_dir, project_name, raised, io, fs,
                   filtered_list, metadata_list, groupVars>>

\* as UnitAfter, with a retry that has no bound: a unit whose invocation
\* raises is subscribed to again for ever
UnitAfter_retries_forever(u, r) ==
    IF r.raised
    THEN [u EXCEPT !.metadata = r.metadata,
                   !.attempts = IF @ < RETRY_COUNT THEN @ + 1 ELSE @,
                   !.state = "scheduled"]
    ELSE IF r.classified
    THEN [u EXCEPT !.metadata = r.metadata,
                   !.attempts = @ + 1,
                   !.state = "emitted",
                   !.item = [list_type |-> r.list_type, dir_name |-> r.dir_name]]
    ELSE [u EXCEPT !.attempts = @ + 1, !.state = "filtered"]

\* the state of unit u after one run of map(process_metadata_item) and the
\* operators behind it, r being what _process_metadata did
UnitAfter(u, r) ==
    IF r.raised
    THEN [u EXCEPT !.metadata = r.metadata,
                   !.attempts = @ + 1,
                   !.state = IF u.attempts + 1 < RETRY_COUNT
                             THEN "scheduled"     \* retry: subscribed again
                             ELSE "dropped"]      \* catch: handle_processing_error
    ELSE IF r.classified
    THEN [u EXCEPT !.metadata = r.metadata,
                   !.attempts = @ + 1,
                   !.state = "emitted",
                   !.item = [list_type |-> r.list_type, dir_name |-> r.dir_name]]
    ELSE [u EXCEPT !.attempts = @ + 1, !.state = "filtered"]   \* None

\* one run of unit i in which _process_metadata is given, instead of
\* filtered_list, the names of the records already classified and its own
ClassifyUnit_order_dependent(i) ==
    /\ pc = "wait"
    /\ units[i].state = "scheduled"
    /\ LET seen == {units[j].metadata.SourceFile :
                        j \in {j \in DOMAIN units : j = i \/ units[j].state # "scheduled"}}
           r == process_metadata(units[i].metadata,
                                 Sorted({n \in seen : n \notin {ABSENT, NONSTR, NONSTR_FALSY}}),
                                 extract_directory_info(dir_name_to_extract))
           after == [units EXCEPT ![i] = UnitAfter(units[i], r)]
           emitted == ~r.raised /\ r.classified
       IN  /\ units' = after
           /\ list_collection' =
                 IF emitted
                 THEN AddToCollection(list_collection, r.list_type, r.dir_name, r.metadata)
                 ELSE list_collection
           /\ processed_count' = IF emitted THEN processed_count + 1 ELSE processed_count
           /\ completion' =
                 IF \A j \in DOMAIN after : after[j].state # "scheduled"
                 THEN "result"
                 ELSE completion
    /\ UNCHANGED <<call, op_dir, home, cwd, current_dir, project_name, pc, raised, io, fs,
                   filtered_list, metadata_list, groupVars>>

\* as ClassifyUnit, with do_action(log_progress) placed before retry and
\* catch, so that it counts every attempt
ClassifyUnit_counts_attempts(i) ==
    /\ pc = "wait"
    /\ units[i].state = "scheduled"
    /\ LET r == process_metadata(units[i].metadata, filtered_list,
                                 extract_directory_info(dir_name_to_extract))
           after == [units EXCEPT ![i] = UnitAfter(units[i], r)]
           emitted == ~r.raised /\ r.classified
       IN  /\ units' = after
           /\ list_collection' =
                 IF emitted
                 THEN AddToCollection(list_collection, r.list_type, r.dir_name, r.metadata)
                 ELSE list_collection
           /\ processed_count' = processed_count + 1
           /\ completion' =
                 IF \A j \in DOMAIN after : after[j].state # "scheduled"
                 THEN "result"
                 ELSE completion
    /\ UNCHANGED <<call, op_dir, home, cwd, current_dir, project_name, pc, raised, io, fs,
                   filtered_list, metadata_list, groupVars>>

\* as ClassifyUnit, with the counter read before any unit completed and
\* written back unprotected: the increments of units that complete
\* alongside are lost
ClassifyUnit_lost_update(i) ==
    /\ pc = "wait"
    /\ units[i].state = "scheduled"
    /\ LET r == process_metadata(units[i].metadata, filtered_list,
                                 extract_directory_info(dir_name_to_extract))
           after == [units EXCEPT ![i] = UnitAfter(units[i], r)]
           emitted == ~r.raised /\ r.classified
       IN  /\ units' = after
           /\ list_collection' =
                 IF emitted
                 THEN AddToCollection(list_collection, r.list_type, r.dir_name, r.metadata)
                 ELSE list_collection
           /\ processed_count' = IF emitted THEN 1 ELSE processed_count
           /\ completion' =
                 IF \A j \in DOMAIN after : after[j].state # "scheduled"
                 THEN "result"
                 ELSE completion
    /\ UNCHANGED <<call, op_dir, home, cwd, current_dir, project_name, pc, raised, io, fs,
                   filtered_list, metadata_list, groupVars>>

\* one run of unit i on the event loop
ClassifyUnit(i) ==
    /\ pc = "wait"
    /\ units[i].state = "scheduled"
    /\ LET r == process_metadata(units[i].metadata, filtered_list,
                                 extract_directory_info(dir_name_to_extract))
           after == [units EXCEPT ![i] = UnitAfter(units[i], r)]
           emitted == ~r.raised /\ r.classified
       IN  /\ units' = after
           /\ list_collection' =
                 IF emitted
                 THEN AddToCollection(list_collection, r.list_type, r.dir_name, r.metadata)
                 ELSE list_collection
           /\ processed_count' = IF emitted THEN processed_count + 1 ELSE processed_count
           /\ completion' =
                 IF \A j \in DOMAIN after : after[j].state # "scheduled"
                 THEN "result"       \* on_completed
                 ELSE completion
    /\ UNCHANGED <<call, op_dir, home, cwd, current_dir, project_name, pc, raised, io, fs,
                   filtered_list, metadata_list, groupVars>>

\* lines 804-807 without the raise: an empty list_collection ends the run quietly
AwaitCompletion_no_raise ==
    /\ pc = "wait"
    /\ completion = "result"
    /\ IF list_collection = <<>>
       THEN /\ pc' = "done"
            /\ cwd' = CwdAfterFinally
            /\ io' = IoAfterFinally(io)
            /\ UNCHANGED <<raised, group, gstep>>
       ELSE /\ pc' = "groups"
            /\ group' = 1
            /\ gstep' = "prepare"
            /\ UNCHANGED <<raised, cwd, io>>
    /\ UNCHANGED <<call, op_dir, home, current_dir, project_name, fs, filtered_list,
                   metadata_list, classVars, rename_tasks, rename_failures,
                   convert_list, jobs>>

\* lines 804-807 without the await: the run goes on while units are scheduled
AwaitCompletion_no_await ==
    /\ pc = "wait"
    /\ IF list_collection = <<>>
       THEN /\ pc' = "no_classifiable"
            /\ raised' = "NoFilesToProcess"
            /\ cwd' = CwdAfterFinally
            /\ io' = IoAfterFinally(io)
            /\ UNCHANGED <<group, gstep>>
       ELSE /\ pc' = "groups"
            /\ group' = 1
            /\ gstep' = "prepare"
            /\ UNCHANGED <<raised, cwd, io>>
    /\ UNCHANGED <<call, op_dir, home, current_dir, project_name, fs, filtered_list,
                   metadata_list, classVars, rename_tasks, rename_failures,
                   convert_list, jobs>>

\* lines 804-807: await completion_future; raise when nothing was bucketed
AwaitCompletion ==
    /\ pc = "wait"
    /\ completion = "result"
    /\ IF list_collection = <<>>
       THEN /\ pc' = "no_classifiable"
            /\ raised' = "NoFilesToProcess"
            /\ cwd' = CwdAfterFinally
            /\ io' = IoAfterFinally(io)
            /\ UNCHANGED <<group, gstep>>
       ELSE /\ pc' = "groups"
            /\ group' = 1
            /\ gstep' = "prepare"
            /\ UNCHANGED <<raised, cwd, io>>
    /\ UNCHANGED <<call, op_dir, home, current_dir, project_name, fs, filtered_list,
                   metadata_list, classVars, rename_tasks, rename_failures,
                   convert_list, jobs>>

(***************************************************************************)
(* _process_file_group: renaming                                           *)
(***************************************************************************)
\* the project_name property: everything after the first "_" of the
\* working directory's name
ProjectNameOf(dir) ==
    LET u == Find(LastPart(dir), "_")
    IN  IF u = 0 THEN <<>> ELSE Drop(LastPart(dir), u + 1)

DigitChar(d) == ASCII_ORDER[Ord("0") + d]

RECURSIVE IntToStr(_)
\* str(n) for n >= 0
IntToStr(n) == IF n < 10 THEN <<DigitChar(n)>>
               ELSE IntToStr(n \div 10) \o <<DigitChar(n % 10)>>

\* f"{n:03d}"
Pad3(n) ==
    LET t == IntToStr(n)
    IN  IF Len(t) >= 3 THEN t ELSE [i \in 1..(3 - Len(t)) |-> "0"] \o t

\* s.split("_")[-1]
LastSegment(s) == Drop(s, RFind(s, "_") + 1)

\* the file name of f"./{directory}/{date_part}_{project_name}_{seq_num:03d}.{file_ext}".lower()
NewFileName(date_part, project, seq_num, file_ext) ==
    Lower(date_part \o <<"_">> \o project \o <<"_">> \o Pad3(seq_num)
          \o <<".">> \o file_ext)

\* as RenameTasksOf, numbering from 0 (enumerate without start=1)
RenameTasksOf_from_zero(entry, project) ==
    [k \in DOMAIN entry.obj_list |->
        [old |-> entry.obj_list[k].SourceFile,
         dir |-> Lower(entry.directory),
         new |-> NewFileName(entry.obj_list[k].CreateDate, project, k - 1,
                             LastSegment(entry.directory))]]

\* the rename coroutines of one directory of the group, numbered in list order
RenameTasksOf(entry, project) ==
    [k \in DOMAIN entry.obj_list |->
        [old |-> entry.obj_list[k].SourceFile,
         dir |-> Lower(entry.directory),
         new |-> NewFileName(entry.obj_list[k].CreateDate, project, k,
                             LastSegment(entry.directory))]]

RECURSIVE AllRenameTasks(_, _)
AllRenameTasks(value, project) ==
    IF value = <<>> THEN <<>>
    ELSE RenameTasksOf(Head(value), project) \o AllRenameTasks(Tail(value), project)

\* the directories of `names` (in order) that do not exist in dirs yet
RECURSIVE Missing(_, _)
Missing(names, dirs) ==
    IF names = <<>> THEN <<>>
    ELSE (IF Head(names) \in dirs THEN <<>> ELSE <<Head(names)>>)
         \o Missing(Tail(names), dirs \cup {Head(names)})

\* os.makedirs for every directory of names that is missing
MakeDirs(files, names) ==
    [d \in DOMAIN files \cup Range(names) |-> IF d \in DOMAIN files THEN files[d] ELSE {}]

\* lines 823-847: create the directories of the group and number its files
PrepareGroup ==
    /\ pc = "groups"
    /\ gstep = "prepare"
    /\ LET value == list_collection[group].value
           dirs == [k \in DOMAIN value |-> value[k].directory]
           project == IF project_name = None THEN ProjectNameOf(cwd) ELSE project_name
       IN  /\ project_name' = project
           /\ fs' = MakeDirs(fs, dirs)
           /\ io' = io \o [k \in DOMAIN Missing(dirs, DOMAIN fs) |-> "mkdir"]
           /\ rename_tasks' = AllRenameTasks(value, project)
    /\ gstep' = "rename"
    /\ UNCHANGED <<call, op_dir, home, cwd, current_dir, pc, raised, filtered_list,
                   metadata_list, classVars, group, rename_failures, convert_list,
                   jobs>>

\* os.rename(old, dir/new): the file moves, replacing a file of that name
RenameInFs(files, t) ==
    LET f == CHOOSE f \in files[DOT] : f.name = t.old
    IN  [files EXCEPT ![DOT] = @ \ {f},
                      ![t.dir] = {x \in @ : x.name # t.new} \cup {File(t.new, f.src)}]

\* as RenameFile, without the except clause: the OSError of os.rename leaves
\* _rename_file_async, asyncio.gather and the run
RenameFile_raises ==
    /\ pc = "groups"
    /\ gstep = "rename"
    /\ rename_tasks # <<>>
    /\ LET t == Head(rename_tasks)
           present == \E f \in fs[DOT] : f.name = t.old
       IN  \/ /\ present
              /\ fs' = RenameInFs(fs, t)
              /\ io' = Append(io, "rename")
              /\ rename_tasks' = Tail(rename_tasks)
              /\ UNCHANGED <<rename_failures, pc, raised, cwd>>
           \/ /\ ~present \/ rename_failures < MaxRenameFailures
              /\ rename_failures' = rename_failures + 1
              /\ io' = IoAfterFinally(Append(io, "rename"))
              /\ rename_tasks' = Tail(rename_tasks)
              /\ pc' = "failed"
              /\ raised' = "OSError"
              /\ cwd' = CwdAfterFinally
              /\ UNCHANGED fs
    /\ UNCHANGED <<call, op_dir, home, current_dir, project_name,
                   filtered_list, metadata_list, classVars, group, gstep,
                   convert_list, jobs>>

\* _rename_file_async for the next task of asyncio.gather(*rename_tasks):
\* os.rename succeeds, or raises OSError, which is logged
RenameFile ==
    /\ pc = "groups"
    /\ gstep = "rename"
    /\ rename_tasks # <<>>
    /\ LET t == Head(rename_tasks)
           present == \E f \in fs[DOT] : f.name = t.old
       IN  \/ /\ present
              /\ fs' = RenameInFs(fs, t)
              /\ UNCHANGED rename_failures
           \/ /\ ~present \/ rename_failures < MaxRenameFailures
              /\ rename_failures' = rename_failures + 1
              /\ UNCHANGED fs
    /\ io' = Append(io, "rename")
    /\ rename_tasks' = Tail(rename_tasks)
    /\ UNCHANGED <<call, op_dir, home, cwd, current_dir, project_name, pc, raised,
                   filtered_list, metadata_list, classVars, group, gstep,
                   convert_list, jobs>>

(***************************************************************************)
(* _handle_raw_conversion and _delete_original_raw_files                   *)
(***************************************************************************)
DNG == <<"d","n","g">>

RECURSIVE ConvertList_no_skip(_)
\* as ConvertList, without the test for the dng extension
ConvertList_no_skip(dirs) ==
    IF dirs = <<>> THEN <<>>
    ELSE LET old_dir == Head(dirs)
             k == RFind(old_dir, "_")
             base_dir == SubSeq(old_dir, 1, k - 1)
         IN  << [src |-> old_dir, dst |-> base_dir \o <<"_">> \o <<"d","n","g">>] >>
             \o ConvertList_no_skip(Tail(dirs))

RECURSIVE ConvertList(_)
\* lines 860-866: (old_dir, base_dir + "_dng") for every key not ending in _dng
ConvertList(dirs) ==
    IF dirs = <<>> THEN <<>>
    ELSE LET old_dir == Head(dirs)
             k == RFind(old_dir, "_")
             base_dir == SubSeq(old_dir, 1, k - 1)
             dir_ext == Drop(old_dir, k + 1)
         IN  (IF dir_ext = DNG THEN <<>>
              ELSE << [src |-> old_dir, dst |-> base_dir \o <<"_">> \o DNG] >>)
             \o ConvertList(Tail(dirs))

\* the loop over list_collection moves on, or the run ends (finally included)
Advance(log) ==
    IF group < Len(list_collection)
    THEN /\ group' = group + 1
         /\ gstep' = "prepare"
         /\ io' = log
         /\ UNCHANGED <<pc, cwd>>
    ELSE /\ gstep' = ""
         /\ pc' = "done"
         /\ cwd' = CwdAfterFinally
         /\ io' = IoAfterFinally(log)
         /\ UNCHANGED group

\* as AfterRenames, not awaiting asyncio.gather(*rename_tasks): the
\* conversion is entered while renames of the group are outstanding
AfterRenames_not_awaited ==
    /\ pc = "groups"
    /\ gstep = "rename"
    /\ LET g == list_collection[group]
           pairs == ConvertList([k \in DOMAIN g.value |-> g.value[k].directory])
       IN  IF g.key = RAW_IMAGE_DICT /\ pairs # <<>>
           THEN /\ convert_list' = pairs
                /\ jobs' = [k \in DOMAIN pairs |-> "created"]
                /\ gstep' = "convert"
                /\ UNCHANGED <<pc, cwd, io, group>>
           ELSE /\ Advance(io)
                /\ UNCHANGED <<convert_list, jobs>>
    /\ UNCHANGED <<call, op_dir, home, current_dir, project_name, raised, fs,
                   filtered_list, metadata_list, classVars, rename_tasks,
                   rename_failures>>

\* lines 849-873: the renames are gathered; a RAW group builds its convert
\* list and creates one conversion task per pair
AfterRenames ==
    /\ pc = "groups"
    /\ gstep = "rename"
    /\ rename_tasks = <<>>
    /\ LET g == list_collection[group]
           pairs == ConvertList([k \in DOMAIN g.value |-> g.value[k].directory])
       IN  IF g.key = RAW_IMAGE_DICT /\ pairs # <<>>
           THEN /\ convert_list' = pairs
                /\ jobs' = [k \in DOMAIN pairs |-> "created"]
                /\ gstep' = "convert"
                /\ UNCHANGED <<pc, cwd, io, group>>
           ELSE /\ Advance(io)
                /\ UNCHANGED <<convert_list, jobs>>
    /\ UNCHANGED <<call, op_dir, home, current_dir, project_name, raised, fs,
                   filtered_list, metadata_list, classVars, rename_tasks,
                   rename_failures>>

\* convert_raw_to_dng up to `await py_dng.convert()`: the tasks of
\* asyncio.gather start in list order, each creating its destination
StartJob(j) ==
    /\ pc = "groups"
    /\ gstep = "convert"
    /\ jobs[j] = "created"
    /\ \A k \in 1..(j - 1) : jobs[k] # "created"
    /\ jobs' = [jobs EXCEPT ![j] = "running"]
    /\ fs' = MakeDirs(fs, <<convert_list[j].dst>>)
    /\ io' = io \o (IF convert_list[j].dst \in DOMAIN fs THEN <<>> ELSE <<"mkdir">>)
                \o <<"convert">>
    /\ UNCHANGED <<call, op_dir, home, cwd, current_dir, project_name, pc, raised,
                   filtered_list, metadata_list, classVars, group, gstep,
                   rename_tasks, rename_failures, convert_list>>

\* name.rsplit(".", 1)[0]
Stem(name) == IF HasChar(name, ".") THEN SubSeq(name, 1, RFind(name, ".") - 1) ELSE name

\* the converter wrote <stem>.dng of file f into dst, over a file of that name
Converted(files, dst, f) ==
    LET out == File(Stem(f.name) \o <<".">> \o DNG, f.src)
    IN  [files EXCEPT ![dst] = {x \in @ : x.name # out.name} \cup {out}]

\* line 280: while task j is suspended in `await py_dng.convert()` the
\* converter writes the DNG of one file of the source directory.  It may
\* write none, or some, or all of them before convert() returns or raises,
\* so a task that fails, or is still running when the run ends, may have
\* left DNG files.
PyDngConvert(j) ==
    /\ \/ pc = "groups"
       \/ pc = "failed" /\ raised = "ConversionError"
    /\ gstep = "convert"
    /\ jobs[j] = "running"
    /\ \E f \in fs[convert_list[j].src] :
          /\ fs' = Converted(fs, convert_list[j].dst, f)
          /\ fs' # fs
    /\ UNCHANGED <<call, op_dir, home, cwd, current_dir, project_name, pc, raised, io,
                   filtered_list, metadata_list, classVars, group, gstep,
                   rename_tasks, rename_failures, convert_list, jobs>>

\* py_dng.convert() of task j returns, or raises; the exception is re-raised
\* (line 326) and ends the task.  The other tasks of asyncio.gather go on
\* running.  When convert() does not suspend, task j ends before task j + 1
\* has started.  A task still running when the main task has left
\* asyncio.gather with the exception of another is not cancelled by it, and
\* may end afterwards.
FinishJob(j) ==
    /\ \/ pc = "groups"
       \/ pc = "failed" /\ raised = "ConversionError"
    /\ gstep = "convert"
    /\ jobs[j] = "running"
    /\ \/ jobs' = [jobs EXCEPT ![j] = "done"]
       \/ jobs' = [jobs EXCEPT ![j] = "failed"]
    /\ UNCHANGED <<call, op_dir, home, cwd, current_dir, project_name, pc, raised, io, fs,
                   filtered_list, metadata_list, classVars, group, gstep,
                   rename_tasks, rename_failures, convert_list>>

\* line 873: the main task is resumed with the exception of a task that
\* raised; it leaves asyncio.gather, _handle_raw_conversion and the run,
\* whatever the other tasks have done by then.  The first step of every task
\* is scheduled before the callback of a finished task, so every task has
\* started by then.
LeaveGather ==
    /\ pc = "groups"
    /\ gstep = "convert"
    /\ \E j \in DOMAIN jobs : jobs[j] = "failed"
    /\ \A k \in DOMAIN jobs : jobs[k] # "created"
    /\ pc' = "failed"
    /\ raised' = "ConversionError"
    /\ cwd' = CwdAfterFinally
    /\ io' = IoAfterFinally(io)
    /\ UNCHANGED <<call, op_dir, home, current_dir, project_name, fs, filtered_list,
                   metadata_list, classVars, groupVars>>

\* the outcome of the cleanup of one pair, or of all: the state of the
\* directories after it, the operations it issued, and whether it returned
CleanupResult(files, log, ok) == [fs |-> files, log |-> log, ok |-> ok]

\* as DeletePair, removing the whole RAW directory as soon as one stem matches
DeletePair_removes_all(files, pair) ==
    LET raw_files == {Stem(n) : n \in Names(files[pair.src])}
        dng_files == {Stem(n) : n \in Names(files[pair.dst])}
    IN  IF raw_files \subseteq dng_files \/ raw_files \cap dng_files # {}
        THEN {CleanupResult([d \in DOMAIN files \ {pair.src} |-> files[d]],
                            <<"rmtree">>, TRUE)}
        ELSE {CleanupResult(files, <<>>, TRUE)}

\* _delete_original_raw_files for one (raw_dir, dng_dir) pair: the outcomes
\* it can have.  The matching stems are removed in the iteration order of a
\* Python set, which is not determined; os.remove raises at the first name
\* that does not exist, the names before it in that order having been
\* removed and the names after it not.
DeletePair(files, pair) ==
    LET raw_files == {Stem(n) : n \in Names(files[pair.src])}
        dng_files == {Stem(n) : n \in Names(files[pair.dst])}
        raw_file_ext == LastSegment(pair.src)
        matching_files == {st \o <<".">> \o raw_file_ext : st \in raw_files \cap dng_files}
        existing == matching_files \cap Names(files[pair.src])
        Without(removed) == [files EXCEPT ![pair.src] = {f \in @ : f.name \notin removed}]
        Removes(n) == [k \in 1..n |-> "remove"]
    IN  IF raw_files \subseteq dng_files
        THEN {CleanupResult([d \in DOMAIN files \ {pair.src} |-> files[d]],
                            <<"rmtree">>, TRUE)}
        ELSE IF existing = matching_files
        THEN {CleanupResult(Without(existing), Removes(Cardinality(existing)), TRUE)}
        ELSE {CleanupResult(Without(removed), Removes(Cardinality(removed) + 1), FALSE) :
                 removed \in SUBSET existing}

RECURSIVE delete_original_raw_files(_, _)
\* lines 701-714: the pairs in list order, up to the first that raises
delete_original_raw_files(files, pairs) ==
    IF pairs = <<>> THEN {CleanupResult(files, <<>>, TRUE)}
    ELSE UNION { IF one.ok
                 THEN {CleanupResult(rest.fs, one.log \o rest.log, rest.ok) :
                          rest \in delete_original_raw_files(one.fs, Tail(pairs))}
                 ELSE {one} :
                 one \in DeletePair(files, Head(pairs)) }

\* line 874: every conversion task returned; the originals are cleaned up
Cleanup ==
    /\ pc = "groups"
    /\ gstep = "convert"
    /\ \A k \in DOMAIN jobs : jobs[k] = "done"
    /\ \E r \in delete_original_raw_files(fs, convert_list) :
           /\ fs' = r.fs
           /\ IF r.ok
              THEN /\ Advance(io \o r.log)
                   /\ UNCHANGED raised
              ELSE /\ pc' = "failed"
                   /\ raised' = "OSError"
                   /\ cwd' = CwdAfterFinally
                   /\ io' = IoAfterFinally(io \o r.log)
                   /\ UNCHANGED <<group, gstep>>
    /\ UNCHANGED <<call, op_dir, home, current_dir, project_name, filtered_list,
                   metadata_list, classVars, rename_tasks, rename_failures,
                   convert_list, jobs>>

(***************************************************************************)
(* Specifications                                                          *)
(***************************************************************************)
Next ==
    \/ ValidateImageDir
    \/ ChangeToImageDir
    \/ ListFiles
    \/ ExtractMetadata
    \/ Subscribe
    \/ \E i \in DOMAIN units : ClassifyUnit(i)
    \/ AwaitCompletion
    \/ PrepareGroup
    \/ RenameFile
    \/ AfterRenames
    \/ \E j \in DOMAIN jobs : StartJob(j)
    \/ \E j \in DOMAIN jobs : PyDngConvert(j)
    \/ \E j \in DOMAIN jobs : FinishJob(j)
    \/ LeaveGather
    \/ Cleanup

Spec == Init /\ [][Next]_vars

(***************************************************************************)
(* The run under the scheduling of the code: asyncio.run drives            *)
(* process_images_reactive to its end, the event loop runs every callback  *)
(* that was scheduled on it, and the calls to the metadata provider, the   *)
(* filesystem and the converter return.  A step that can be taken is       *)
(* therefore taken eventually.                                             *)
(***************************************************************************)
\* the steps whose enabling condition is evaluated as ENABLED
Proceed ==
    \/ ChangeToImageDir
    \/ ListFiles
    \/ ExtractMetadata
    \/ Subscribe
    \/ AwaitCompletion
    \/ RenameFile
    \/ AfterRenames
    \/ \E j \in DOMAIN jobs : StartJob(j)
    \/ \E j \in DOMAIN jobs : FinishJob(j)
    \/ LeaveGather

\* a classification unit is scheduled on the event loop
UnitScheduled == pc = "wait" /\ \E i \in DOMAIN units : units[i].state = "scheduled"

\* the run is about to prepare the renames of a group
AtPrepare == pc = "groups" /\ gstep = "prepare"

\* every conversion task of the group has returned
AtCleanup == pc = "groups" /\ gstep = "convert" /\ \A k \in DOMAIN jobs : jobs[k] = "done"

\* Weak fairness of every step of the run.  For ValidateImageDir, the
\* classification units, PrepareGroup and Cleanup the condition is written
\* out, a state predicate standing for ENABLED: each of these steps can be
\* taken, and changes the state, whenever the run is at its position
\* (ValidateImageDir changes pc, ClassifyUnit counts an attempt,
\* PrepareGroup and Cleanup change gstep, group or pc).
SpecFair ==
    /\ Init
    /\ [][Next]_vars
    /\ WF_vars(Proceed)
    /\ ([]<>(pc # "validate") \/ []<><<ValidateImageDir>>_vars)
    /\ ([]<>(~UnitScheduled) \/ []<><<\E i \in DOMAIN units : ClassifyUnit(i)>>_vars)
    /\ ([]<>(~AtPrepare) \/ []<><<PrepareGroup>>_vars)
    /\ ([]<>(~AtCleanup) \/ []<><<Cleanup>>_vars)

(***************************************************************************)
(* Directory-name validation on its own: the constructor is given one of   *)
(* many directory names and the run starts                                 *)
(***************************************************************************)
\* eight digits: year, month and day, in and out of the calendar
V_DATES ==
    LET V_YEARS == { <<"2","0","2","4">>, <<"2","0","2","3">>, <<"0","0","0","0">>,
                     <<"1","9","0","0">>, <<"2","0","0","0">> }
        V_MONTHS == { <<"0","0">>, <<"0","2">>, <<"0","4">>, <<"1","2">>, <<"1","3">> }
        V_DAYS == { <<"0","0">>, <<"0","1">>, <<"2","8">>, <<"2","9">>, <<"3","0">>,
                    <<"3","1">>, <<"3","2">> }
    IN  {y \o m \o d : y \in V_YEARS, m \in V_MONTHS, d \in V_DAYS}

\* date parts that are not eight digits
V_MALFORMED == { <<"2","0","2","4","1","2","1">>,
                 <<"2","0","2","4","1","2","1","0","0">>,
                 <<"a","b","c","d","1","2","1","0">>,
                 <<"2","0","2","4"," ","2","1","0">> }

V_SUFFIXES == { <<"_","t","r","i","p">>, <<>>, <<"_">>, <<"t","r","i","p">>,
                <<"_","m","y","-","p","r","o","j","_","2">>, <<"_","a"," ","b">>,
                <<"_","t","r","i","p","\n">>, <<"_","t","r","i","p","\n","\n">>,
                <<"_","a",".","b">> }

V_RANGE_DATES == { <<"2","0","2","4","1","2","3","1">>, <<"2","0","2","5","0","1","0","1">>,
                   <<"2","0","2","4","0","2","2","9">>, <<"2","0","2","3","0","2","2","9">>,
                   <<"2","0","2","4","0","2","3","0">>, <<"2","0","2","4","1","2","1">> }

V_SPECIAL == { <<>>, <<"i","n","v","a","l","i","d","_","f","o","r","m","a","t">>,
               <<"2","0","2","4","1","2","1","0","-","2","0","2","4","1","2","1","1",
                 "-","2","0","2","4","1","2","1","2","_","x">>,
               <<"/","d","a","t","a","/","2","0","2","4","1","2","1","0","_","t","r","i","p">>,
               <<"2","0","2","4","1","2","1","0","_","t","r","i","p","/">>,
               <<"2","0","2","4","1","2","1","0","_","t","r","i","p","/","r","a","w">> }

DirNameInputs ==
    {d \o x : d \in V_DATES, x \in V_SUFFIXES}
    \cup {d \o x : d \in V_MALFORMED, x \in V_SUFFIXES}
    \cup {a \o <<"-">> \o b \o x : a \in V_RANGE_DATES, b \in V_RANGE_DATES,
                                   x \in { <<"_","t","r","i","p">>, <<>>, <<"_","a"," ","b">>,
                                           <<"_","t","r","i","p","\n">> }}
    \cup V_SPECIAL

\* the name is given as op_dir, or the run starts inside a directory of that name
InitValidate ==
    \E name \in DirNameInputs :
        \/ InitWith(name, WORK, {})
        \/ /\ name # <<>>
           /\ ~HasChar(name, "/")
           /\ InitWith(DOT, name, {})

NextValidate == ValidateImageDir

SpecValidate == InitValidate /\ [][NextValidate]_vars

(***************************************************************************)
(* Classification on its own: one metadata record, as the provider         *)
(* returned it for a file of the image directory, is a scheduled unit of   *)
(* the classification stage                                                *)
(***************************************************************************)
DIR_RANGE == <<"2","0","2","4","1","2","3","1","-","2","0","2","5","0","1","0","1","_","t","r","i","p">>

\* <<op_dir, working directory at the start>>
ClassifyDirs == {<<DIR_TRIP, WORK>>, <<DIR_RANGE, WORK>>, <<DOT, DIR_TRIP>>}

C_BASE == <<"p","h","o","t","o">>

\* extensions in the letter cases cameras and tools write
C_RAW_EXTS == supported_raw_image_ext_list \cup {<<"C","R","2">>, <<"N","E","F">>, <<"D","n","g">>}

C_OTHER_EXTS ==
  { <<"j","p","g">>, <<"J","P","G">>, <<"J","p","g">>, <<"j","p","e","g">>, <<"p","n","g">>,
    <<"t","i","f">>, <<"h","e","i","c">>, <<"g","i","f">>, <<"m","o","v">>, <<"M","P","4">>,
    <<"p","d","f">>, <<"t","h","m","b">>, <<"t","x","t">>, <<>> }

C_FILES ==
    {C_BASE \o <<".">> \o e : e \in C_RAW_EXTS \cup C_OTHER_EXTS}
    \cup {C_BASE, <<"m","y",".","p","h","o","t","o",".","j","p","g">>}

\* the other files of the directory
C_SIBLINGS ==
    { {}, {<<"p","h","o","t","o",".","c","r","2">>}, {<<"P","H","O","T","O",".","N","E","F">>},
      {<<"p","h","o","t","o",".","j","p","e","g">>}, {<<"p","h","o","t","o","2",".","c","r","2">>},
      {<<"p","h","o","t","o",".","j","p","g">>}, {<<"m","y",".","p","h","o","t","o",".","A","R","W">>} }

C_DATES ==
    { ABSENT, NONSTR, NONSTR_FALSY, <<>>, EXIF_UNKNOWN, DATE_A,
      <<"2","0","2","4",":","1",":","5"," ","4",":","3",":","2">>,
      <<"2","0","2","4",":","1","2",":","1","0"," "," ","1","4",":","3","0",":","0","5">>,
      <<"2","0","2","4",":","1","2",":","1","0","\t","1","4",":","3","0",":","0","5">>,
      <<"2","0","2","4",":","1","2",":"," ","5"," ","1","4",":","3","0",":","0","5">>,
      <<"i","n","v","a","l","i","d">>,
      <<"2","0","2","4",":","0","2",":","3","0"," ","1","0",":","0","0",":","0","0">>,
      <<"2","0","2","4",":","0","2",":","2","9"," ","2","3",":","5","9",":","5","9">>,
      <<"2","0","2","4",":","1","2",":","1","0"," ","1","4",":","3","0",":","6","0">>,
      <<"2","0","2","4",":","1","2",":","1","0"," ","2","4",":","0","0",":","0","0">>,
      <<"2","0","2","4","-","1","2","-","1","0"," ","1","4",":","3","0",":","0","5">>,
      <<"2","0","2","4",":","1","2",":","1","0"," ","1","4",":","3","0",":","0","5","Z">>,
      <<"2","0","2","4",":","1","2",":","1","0"," ","1","4",":","3","0">>,
      <<"0","0","0","0",":","0","0",":","0","0"," ","0","0",":","0","0",":","0","0">>,
      <<"2","0","2","4","1","2","1","0","-","1","4","3","0","0","5">> }

C_MAKES ==
    { ABSENT, NONSTR, NONSTR_FALSY, <<>>, EXIF_UNKNOWN, CANON, NIKON,
      <<"U","n","k","n","o","w","n">>, <<"u","n"," ","k","n","o","w","n">>, <<"E","O","S">>,
      <<"k","n","o","w">> }

C_MODELS ==
    { ABSENT, NONSTR, NONSTR_FALSY, <<>>, EXIF_UNKNOWN, CANON_R5, NIKON_D850,
      <<"E","O","S"," ","R","5">>,
      <<"E","O","S"," ","C","a","n","o","n"," ","R"," ","C","a","n","o","n">>,
      <<"C","a","n","o","n">>,
      <<"C","a","n","o","n","\t","E","O","S"," ","R","5">>,
      <<"R","5","\n">> }

ClassifyInput(dir, file, siblings, date, make, model) ==
    [dir |-> dir, file |-> file, siblings |-> siblings,
     date |-> date, make |-> make, model |-> model]

C_MAIN_FILES == {C_BASE \o <<".">> \o e : e \in {<<"c","r","2">>, <<"N","E","F">>, <<"d","n","g">>, <<"j","p","g">>, <<"p","n","g">>, <<"m","o","v">>}}

ClassifyInputs ==
    \* every file name with every set of siblings
    {ClassifyInput(<<DIR_TRIP, WORK>>, f, s, ABSENT, mk, ABSENT) :
        f \in C_FILES, s \in C_SIBLINGS, mk \in {ABSENT, CANON}}
    \* every date in every kind of directory
    \cup {ClassifyInput(d, f, {}, dt, CANON, CANON_R5) :
            d \in ClassifyDirs, dt \in C_DATES,
            f \in {C_BASE \o <<".">> \o e : e \in {<<"c","r","2">>, <<"j","p","g">>, <<"m","o","v">>}}}
    \* every make with every model
    \cup {ClassifyInput(<<DIR_TRIP, WORK>>, f, s, DATE_A, mk, mo) :
            f \in C_MAIN_FILES, s \in {{}, {<<"p","h","o","t","o",".","c","r","2">>}},
            mk \in C_MAKES, mo \in C_MODELS}
    \* every RAW extension with the makes that ask for inference or not
    \cup {ClassifyInput(<<DIR_TRIP, WORK>>, C_BASE \o <<".">> \o e, {}, ABSENT, mk, mo) :
            e \in C_RAW_EXTS, mk \in {ABSENT, EXIF_UNKNOWN, <<>>, NIKON,
                                      <<"u","n"," ","k","n","o","w","n">>},
            mo \in {ABSENT, <<>>, NIKON_D850}}
    \* records without a usable SourceFile
    \cup {ClassifyInput(<<DIR_TRIP, WORK>>, f, {<<"p","h","o","t","o",".","c","r","2">>}, DATE_A, CANON, CANON_R5) :
            f \in {ABSENT, NONSTR, NONSTR_FALSY, <<>>}}

\* the records the provider returns for a directory of several files, in
\* every order: the code takes the list as ExifTool gives it (line 122).  A
\* RAW file, a jpg and a RAW file of the same base name in other letters, a
\* video whose model is a number, a file of no supported type and a png
\* with empty tags
C_RECORD_LISTS ==
    LET pool == { Meta(C_BASE \o <<".","c","r","2">>, DATE_A, CANON, CANON_R5),
                  Meta(C_BASE \o <<".","j","p","g">>, DATE_A, CANON, CANON_R5),
                  Meta(<<"P","H","O","T","O",".","N","E","F">>, ABSENT, ABSENT, NIKON_D850),
                  Meta(C_BASE \o <<".","m","o","v">>, DATE_A, CANON, NONSTR),
                  Meta(C_BASE \o <<".","t","x","t">>, DATE_A, CANON, CANON_R5),
                  Meta(C_BASE \o <<".","p","n","g">>, <<"i","n","v","a","l","i","d">>,
                       <<>>, <<>>) }
    IN  {l \in UNION {[1 .. n -> pool] : n \in 2 .. MaxFiles} :
            \A i, j \in DOMAIN l : i # j => l[i] # l[j]}

\* the state process_images_reactive is in after subscribing, the provider
\* having returned one record, or several in an order of its own
InitClassify ==
    LET Subscribed(dir, names, records) ==
            LET started == dir[1] # DOT
            IN  /\ call = CallWith(dir[1], ABSENT, ABSENT)
                /\ op_dir = dir[1]
                /\ home = dir[2]
                /\ cwd = IF started THEN LastPart(dir[1]) ELSE dir[2]
                /\ current_dir = IF started THEN dir[2] ELSE None
                /\ project_name = None
                /\ pc = "wait"
                /\ raised = ""
                /\ io = IF started THEN <<"chdir", "listdir", "extract">>
                        ELSE <<"listdir", "extract">>
                /\ fs = [d \in {DOT} |-> {File(n, n) : n \in names}]
                /\ filtered_list = FilteredList({File(n, n) : n \in names})
                /\ metadata_list = records
                /\ units = [k \in DOMAIN records |-> Unit(records[k])]
                /\ list_collection = <<>>
                /\ processed_count = 0
                /\ completion = "pending"
                /\ group = 0
                /\ gstep = ""
                /\ rename_tasks = <<>>
                /\ rename_failures = 0
                /\ convert_list = <<>>
                /\ jobs = <<>>
    IN  \/ \E x \in ClassifyInputs :
              Subscribed(x.dir,
                         (IF x.file \in {ABSENT, NONSTR, NONSTR_FALSY, <<>>}
                          THEN {} ELSE {x.file}) \cup x.siblings,
                         <<Meta(x.file, x.date, x.make, x.model)>>)
       \/ \E l \in C_RECORD_LISTS :
              Subscribed(<<DIR_TRIP, WORK>>, {l[k].SourceFile : k \in DOMAIN l}, l)

NextClassify == \E i \in DOMAIN units : ClassifyUnit(i)

SpecClassify == InitClassify /\ [][NextClassify]_vars

(***************************************************************************)
(* A run over a directory an earlier run has left bucket directories in.   *)
(* os.listdir lists them, os.path.isfile (line 729) keeps them out of the  *)
(* file list, and os.path.exists (line 828) finds them.                    *)
(***************************************************************************)
\* a file an earlier run left: its content is not one of this run's files
Earlier(name) == File(name, <<"~">> \o name)

CANON_EOSR5_001 ==
    <<"2","0","2","4","1","2","1","0","-","1","4","3","0","0","5","_","t","r","i","p","_","0","0","1">>

\* <<bucket directory, extension>> of the files an earlier run may have left,
\* each named 20241210-143005_trip_001.<extension>
LEFT_BEHIND ==
    { << <<"c","a","n","o","n","_","e","o","s","r","5","_","c","r","2">>, <<"c","r","2">> >>,
      << <<"c","a","n","o","n","_","e","o","s","r","5","_","d","n","g">>, <<"d","n","g">> >>,
      << <<"c","a","n","o","n","_","e","o","s","r","5","_","j","p","g">>, <<"j","p","g">> >> }

\* the new files of the directory
RERUN_FILES ==
    { <<"I","M","G","1",".","C","R","2">>, <<"I","M","G","1",".","J","P","G">>,
      <<"I","M","G","4",".","N","E","F">>, <<"I","M","G","5",".","d","n","g">>,
      <<"I","M","G","6",".","C","R","2">> }

InitRerun ==
    \E names \in {S \in SUBSET RERUN_FILES : Cardinality(S) <= MaxFiles},
       left \in SUBSET LEFT_BEHIND :
        /\ call = CallWith(DIR_TRIP, ABSENT, ABSENT)
        /\ op_dir = DIR_TRIP
        /\ home = WORK
        /\ cwd = WORK
        /\ current_dir = None
        /\ project_name = None
        /\ pc = "validate"
        /\ raised = ""
        /\ io = <<>>
        /\ fs = [d \in {DOT} \cup {l[1] : l \in left} |->
                    IF d = DOT THEN {File(n, n) : n \in names}
                    ELSE {Earlier(CANON_EOSR5_001 \o <<".">> \o l[2]) :
                             l \in {l \in left : l[1] = d}}]
        /\ filtered_list = <<>>
        /\ metadata_list = <<>>
        /\ units = <<>>
        /\ list_collection = <<>>
        /\ processed_count = 0
        /\ completion = "none"
        /\ group = 0
        /\ gstep = ""
        /\ rename_tasks = <<>>
        /\ rename_failures = 0
        /\ convert_list = <<>>
        /\ jobs = <<>>

SpecRerun == InitRerun /\ [][Next]_vars

(***************************************************************************)
(* The entry point: cli.main calls run_pipeline with keyword arguments,    *)
(* run_pipeline constructs the processor and starts the run                *)
(***************************************************************************)
\* the keywords a call passes
Passed(c) == {k \in DOMAIN c : c[k] # ABSENT}

\* lines 877-886: the call binds its keywords to the parameters (TypeError
\* for a keyword that is not one), then ImageProcessor(logger, op_dir=image_dir)
RunPipeline ==
    /\ pc = "call"
    /\ IF Passed(call) \subseteq RUN_PIPELINE_PARAMETERS
       THEN /\ op_dir' = call.image_dir
            /\ pc' = "validate"
            /\ UNCHANGED raised
       ELSE /\ pc' = "failed"
            /\ raised' = "TypeError"
            /\ UNCHANGED op_dir
    /\ UNCHANGED <<call, home, cwd, current_dir, project_name, io, fs, filtered_list,
                   metadata_list, classVars, groupVars>>

\* cli.main passes all of them (cli.py lines 41-48); the tests pass logger
\* and image_dir only
InitEntry ==
    \E dir \in (V_SPECIAL \cup {DIR_TRIP, DIR_SHORT, DIR_RANGE, DOT}) \ {<<>>},
       compression \in {ABSENT, <<"lossless">>, <<"uncompressed">>},
       preview \in {ABSENT, <<"True">>, <<"False">>} :
        /\ call = CallWith(dir, compression, preview)
        /\ op_dir = None
        /\ home = WORK
        /\ cwd = WORK
        /\ current_dir = None
        /\ project_name = None
        /\ pc = "call"
        /\ raised = ""
        /\ io = <<>>
        /\ fs = [d \in {DOT} |-> {}]
        /\ filtered_list = <<>>
        /\ metadata_list = <<>>
        /\ units = <<>>
        /\ list_collection = <<>>
        /\ processed_count = 0
        /\ completion = "none"
        /\ group = 0
        /\ gstep = ""
        /\ rename_tasks = <<>>
        /\ rename_failures = 0
        /\ convert_list = <<>>
        /\ jobs = <<>>

NextEntry == RunPipeline \/ ValidateImageDir

SpecEntry == InitEntry /\ [][NextEntry]_vars

(***************************************************************************)
(* C1                                                                      *)
(***************************************************************************)
\* the value of one decimal digit
DigitValue(c) == CHOOSE v \in 0..9 : <<"0","1","2","3","4","5","6","7","8","9">>[v + 1] = c

AllDigits(s) == \A i \in DOMAIN s : s[i] \in {"0","1","2","3","4","5","6","7","8","9"}

YearOf(s) == 1000 * DigitValue(s[1]) + 100 * DigitValue(s[2])
             + 10 * DigitValue(s[3]) + DigitValue(s[4])

MonthOf(s) == 10 * DigitValue(s[5]) + DigitValue(s[6])

DayOf(s) == 10 * DigitValue(s[7]) + DigitValue(s[8])

\* the days of a month of the proleptic Gregorian calendar
CalendarDays(y, m) ==
    IF m \in {1, 3, 5, 7, 8, 10, 12} THEN 31
    ELSE IF m \in {4, 6, 9, 11} THEN 30
    ELSE IF (y % 4 = 0 /\ y % 100 # 0) \/ y % 400 = 0 THEN 29
    ELSE 28

\* eight digits that name a real calendar date (years 0001 to 9999)
RealCalendarDate(s) ==
    /\ Len(s) = 8
    /\ AllDigits(s)
    /\ YearOf(s) >= 1
    /\ MonthOf(s) \in 1..12
    /\ DayOf(s) \in 1..CalendarDays(YearOf(s), MonthOf(s))

DateNumber(s) == 10000 * YearOf(s) + 100 * MonthOf(s) + DayOf(s)

\* one or more of letters, digits, underscore, hyphen
ProjectPartOk(s) ==
    /\ s # <<>>
    /\ \A i \in DOMAIN s : s[i] \in Range(UPPER) \cup Range(LOWER) \cup {"0","1","2","3","4","5","6","7","8","9","_","-"}

\* YYYYMMDD_project or YYYYMMDD-YYYYMMDD_project with real dates, start <= end
WellFormedDirName(b) ==
    \/ /\ Len(b) >= 10
       /\ RealCalendarDate(SubSeq(b, 1, 8))
       /\ b[9] = "_"
       /\ ProjectPartOk(SubSeq(b, 10, Len(b)))
    \/ /\ Len(b) >= 19
       /\ RealCalendarDate(SubSeq(b, 1, 8))
       /\ b[9] = "-"
       /\ RealCalendarDate(SubSeq(b, 10, 17))
       /\ b[18] = "_"
       /\ ProjectPartOk(SubSeq(b, 19, Len(b)))
       /\ DateNumber(SubSeq(b, 1, 8)) <= DateNumber(SubSeq(b, 10, 17))

\* the final path component of the validated directory, without the one
\* line feed that the $ of the pattern lets follow the project part
ValidatedName ==
    LET n == LastPart(dir_name_to_validate)
    IN  IF n # <<>> /\ n[Len(n)] = "\n" THEN SubSeq(n, 1, Len(n) - 1) ELSE n

\* C1: directory validation succeeds exactly for final path components of the
\* form YYYYMMDD_project or YYYYMMDD-YYYYMMDD_project (as the pattern
\* ^(\d{8}(?:-\d{8})?)_[\w-]+$ matches them, its $ letting one line feed
\* follow) whose dates are real calendar dates with start <= end; every other
\* name raises the 'Invalid directory format' ValueError.
C1_ValidationExact ==
    pc # "validate" =>
        /\ WellFormedDirName(ValidatedName) => pc = "chdir" /\ raised = ""
        /\ ~WellFormedDirName(ValidatedName) =>
               pc = "validation_failed" /\ raised = "InvalidDirectoryFormat"

\* C1 witness: a date-range name with start < end was accepted
C1_Witness ==
    /\ pc = "chdir"
    /\ Len(op_dir) > 18
    /\ op_dir[9] = "-"
    /\ SubSeq(op_dir, 1, 8) # SubSeq(op_dir, 10, 17)

(***************************************************************************)
(* C2 - C5: the run as a whole                                             *)
(***************************************************************************)
\* the I/O log holds event e
IoHas(e) == \E i \in DOMAIN io : io[i] = e

\* the image directory is as it was at construction: no directory was made,
\* no file renamed
Untouched(files) ==
    /\ DOMAIN files = {DOT}
    /\ \A f \in files[DOT] : f.src = f.name

\* C2: when directory-name validation fails the run raises before any other
\* I/O: no change of working directory, no listing, no metadata extraction,
\* no rename, conversion or deletion happens in that run, and the run is over.
C2_ValidationFailsBeforeIO ==
    pc = "validation_failed" =>
        /\ raised = "InvalidDirectoryFormat"
        /\ io = <<>>
        /\ cwd = home
        /\ current_dir = None
        /\ Untouched(fs)
        /\ filtered_list = <<>>
        /\ metadata_list = <<>>
        /\ units = <<>>
        /\ list_collection = <<>>
        /\ ~ENABLED Next

\* C2 witness: validation failed for a directory that holds files
C2_Witness ==
    /\ pc = "validation_failed"
    /\ fs[DOT] # {}
    /\ op_dir # DOT

\* C3: if the bucket map is empty when the classification stage has finished,
\* the run raises the fatal 'No files to process' error and makes no
\* directory, renames, converts and deletes nothing; if at least one record was
\* bucketed the error is not raised.
C3_EmptyBucketMapIsFatal ==
    /\ pc = "no_classifiable" =>
           /\ raised = "NoFilesToProcess"
           /\ list_collection = <<>>
           /\ completion = "result"
           /\ Untouched(fs)
           /\ ~IoHas("mkdir") /\ ~IoHas("rename") /\ ~IoHas("convert")
           /\ ~IoHas("rmtree") /\ ~IoHas("remove")
           /\ ~ENABLED Next
    /\ (completion = "result" /\ list_collection = <<>>) =>
           pc \in {"wait", "no_classifiable"}
    /\ list_collection # <<>> => raised # "NoFilesToProcess"

\* C3 witness: the error was raised after a record was dropped and another
\* was unclassifiable
C3_Witness ==
    /\ pc = "no_classifiable"
    /\ \E i \in DOMAIN units : units[i].state = "dropped"
    /\ \E i \in DOMAIN units : units[i].state = "filtered"

\* C4: if the candidate list is empty after exclusion filtering the run returns
\* normally without raising, and metadata extraction, classification, renaming
\* and conversion are never invoked.
C4_EmptyCandidateListReturns ==
    /\ pc = "no_unprocessed" =>
           /\ raised = ""
           /\ filtered_list = <<>>
           /\ ~IoHas("extract")
           /\ metadata_list = <<>>
           /\ units = <<>>
           /\ processed_count = 0
           /\ Untouched(fs)
           /\ ~IoHas("mkdir") /\ ~IoHas("rename") /\ ~IoHas("convert")
           /\ ~IoHas("rmtree") /\ ~IoHas("remove")
           /\ ~ENABLED Next
    /\ ((\A f \in fs[DOT] : Excluded(f.name)) /\ Untouched(fs) /\ IoHas("listdir")) =>
           pc \in {"no_unprocessed", "failed"}

\* C4 witness: the run returned from a directory that holds only a hidden
\* file and Thumbs.db
C4_Witness ==
    /\ pc = "no_unprocessed"
    /\ Cardinality(fs[DOT]) = 2

\* the phase of the run at each position of process_images_reactive; a run
\* that a collaborator's error ended (os.chdir, os.listdir, the metadata
\* provider, the converter, os.remove) is Aborted
Phase ==
    CASE pc = "validate" -> "Validating"
      [] pc \in {"chdir", "list"} -> "Listing"
      [] pc = "extract" -> "ExtractingMetadata"
      [] pc = "subscribe" -> "Classifying"
      [] pc = "wait" -> "WaitingForCompletion"
      [] pc = "groups" -> "RenamingAndConverting"
      [] pc = "done" -> "Done"
      [] pc = "validation_failed" -> "ValidationFailed"
      [] pc = "no_unprocessed" -> "NoUnprocessedFiles"
      [] pc = "no_classifiable" -> "NoClassifiableFiles"
      [] pc = "failed" -> "Aborted"

PHASE_ORDER == <<"Validating", "Listing", "ExtractingMetadata", "Classifying",
                 "WaitingForCompletion", "RenamingAndConverting", "Done">>

PhaseRank(p) == CHOOSE k \in DOMAIN PHASE_ORDER : PHASE_ORDER[k] = p

\* the classification stage is over: every unit emitted, was filtered out or
\* was dropped, and on_completed has run
ClassificationFinished ==
    /\ completion = "result"
    /\ \A i \in DOMAIN units : units[i].state # "scheduled"

\* what a change of phase from p to q must satisfy
PhaseChangeOk(p, q) ==
    /\ p \in Range(PHASE_ORDER) \ {"Done"}
    /\ \/ q \in Range(PHASE_ORDER) /\ PhaseRank(q) = PhaseRank(p) + 1
       \/ q = "ValidationFailed" /\ p = "Validating"
       \/ q = "NoUnprocessedFiles" /\ p = "Listing"
       \/ q = "NoClassifiableFiles" /\ p = "WaitingForCompletion"
       \/ q = "Aborted" /\ p # "Validating"
    /\ q = "ExtractingMetadata" => IoHas("listdir")' /\ filtered_list' # <<>>
    /\ q = "Classifying" => IoHas("extract")'
    /\ q = "WaitingForCompletion" => Len(units') = Len(metadata_list)
    /\ q \in {"RenamingAndConverting", "NoClassifiableFiles"} => ClassificationFinished
    /\ q = "Done" => /\ group' = Len(list_collection)
                     /\ \A j \in DOMAIN jobs : jobs[j] = "done"
    /\ p \in {"Validating", "Listing", "ExtractingMetadata", "Classifying",
              "WaitingForCompletion"} =>
           Untouched(fs') /\ ~IoHas("rename")' /\ ~IoHas("convert")'

\* C5: every run visits the phases only in the order Validating, Listing,
\* ExtractingMetadata, Classifying, WaitingForCompletion, RenamingAndConverting,
\* Done: a phase is entered only from its predecessor and after the
\* predecessor's work is finished, none is re-entered, ValidationFailed is
\* entered only from Validating, NoUnprocessedFiles only from Listing and
\* NoClassifiableFiles only from WaitingForCompletion.
C5_PhaseOrder == [][Phase' # Phase => PhaseChangeOk(Phase, Phase')]_vars

\* C5 witness: a run went through every phase to Done, renaming and converting
C5_Witness ==
    /\ pc = "done"
    /\ raised = ""
    /\ IoHas("rename")
    /\ IoHas("convert")

(***************************************************************************)
(* C6 - C10: classification of one record.  For unit i, the record as the  *)
(* provider returned it is metadata_list[i]; what _process_metadata made   *)
(* of it is in units[i].                                                   *)
(***************************************************************************)
Classified(i) == units[i].state = "emitted"

ListTypeAt(i) == units[i].item.list_type

DirectoryKeyAt(i) == units[i].item.dir_name

IsText(v) == v \notin {ABSENT, NONSTR, NONSTR_FALSY}

\* the position of the last "." of a name that has one
LastDot(name) ==
    CHOOSE k \in DOMAIN name :
        name[k] = "." /\ \A j \in DOMAIN name : j > k => name[j] # "."

\* the lower-cased extension and the base name of a file name
ExtensionOf(name) ==
    IF HasChar(name, ".") THEN Lower(SubSeq(name, LastDot(name) + 1, Len(name)))
    ELSE <<>>

BaseOf(name) ==
    IF HasChar(name, ".") THEN SubSeq(name, 1, LastDot(name) - 1) ELSE name

\* the filtered list holds <base>.<raw extension>, letter case ignored
HasRawSibling(base) ==
    \E j \in DOMAIN filtered_list :
        /\ ExtensionOf(filtered_list[j]) \in supported_raw_image_ext_list
        /\ Lower(BaseOf(filtered_list[j])) = Lower(base)

\* C6: a file with extension jpg (any letter case) is Thumbnail exactly when
\* the filtered list holds a file with the same base name (case-insensitive)
\* and a supported RAW extension, CompressedImage otherwise; every other
\* compressed-image extension is CompressedImage even with a RAW sibling; a
\* file with a RAW extension is RawImage; none of them is left unclassified.
C6_ThumbnailPromotion ==
    \A i \in DOMAIN units :
        LET name == metadata_list[i].SourceFile
            ext == ExtensionOf(name)
            known == ext \in supported_raw_image_ext_list
                            \cup Range(SUPPORTED_COMPRESSED_IMAGE_EXT_LIST)
        IN  /\ (units[i].state = "filtered" /\ IsText(name)) => ~known
            /\ Classified(i) =>
                 /\ ext = <<"j","p","g">> =>
                        ListTypeAt(i) = IF HasRawSibling(BaseOf(name))
                                        THEN THUMB_IMAGE_DICT
                                        ELSE COMPRESSED_IMAGE_DICT
                 /\ (ext \in Range(SUPPORTED_COMPRESSED_IMAGE_EXT_LIST)
                        /\ ext # <<"j","p","g">>) =>
                        ListTypeAt(i) = COMPRESSED_IMAGE_DICT
                 /\ ext \in supported_raw_image_ext_list =>
                        ListTypeAt(i) = RAW_IMAGE_DICT

\* C6 witness: a jpg was promoted by a sibling whose name differs in letter case
C6_Witness ==
    \E i \in DOMAIN units :
        /\ Classified(i)
        /\ ListTypeAt(i) = THUMB_IMAGE_DICT
        /\ \E j \in DOMAIN filtered_list :
              /\ ExtensionOf(filtered_list[j]) \in supported_raw_image_ext_list
              /\ BaseOf(filtered_list[j]) # BaseOf(metadata_list[i].SourceFile)
              /\ Lower(BaseOf(filtered_list[j])) = Lower(BaseOf(metadata_list[i].SourceFile))

\* createDate has exactly the shape YYYY:MM:DD HH:MM:SS
ExactDateShape(d) ==
    /\ IsText(d)
    /\ Len(d) = 19
    /\ \A k \in {5, 8, 14, 17} : d[k] = ":"
    /\ d[11] = " "
    /\ \A k \in (1..19) \ {5, 8, 11, 14, 17} : d[k] \in DIGITS

\* the digits of a createDate of that shape
DateDigits(d) == SubSeq(d, 1, 4) \o SubSeq(d, 6, 7) \o SubSeq(d, 9, 10)

TimeDigits(d) == SubSeq(d, 12, 13) \o SubSeq(d, 15, 16) \o SubSeq(d, 18, 19)

TwoDigits(s) == 10 * DigitValue(s[1]) + DigitValue(s[2])

\* a createDate of that shape names a real date and time of day
ValidDateTime(d) ==
    /\ RealCalendarDate(DateDigits(d))
    /\ TwoDigits(SubSeq(d, 12, 13)) \in 0..23
    /\ TwoDigits(SubSeq(d, 15, 16)) \in 0..59
    /\ TwoDigits(SubSeq(d, 18, 19)) \in 0..59

\* the single date, or the start date of the range, in the directory name
FallbackDate == SubSeq(LastPart(dir_name_to_extract), 1, 8)

\* C7: for every classified record the normalized date is the 15-character
\* YYYYMMDD-HHMMSS reformatting of createDate when createDate is present, has
\* exactly the shape YYYY:MM:DD HH:MM:SS and is a valid date-time; in every
\* other case it is exactly the 8-digit fallbackDate.  No other shape occurs.
C7_DateNormalization ==
    \A i \in DOMAIN units :
        Classified(i) =>
            LET d == metadata_list[i].CreateDate
            IN  units[i].metadata.CreateDate =
                    IF ExactDateShape(d) /\ ValidDateTime(d)
                    THEN DateDigits(d) \o <<"-">> \o TimeDigits(d)
                    ELSE FallbackDate

\* the white space str.strip() removes
WHITESPACE == {" ", "\t", "\n"}

RemoveSpaces(s) == SelectSeq(s, LAMBDA c : c # " ")

RECURSIVE RemoveAll(_, _)
\* s without the occurrences of p, found from the left
RemoveAll(s, p) ==
    IF p = <<>> \/ Len(s) < Len(p) THEN s
    ELSE IF SubSeq(s, 1, Len(p)) = p
         THEN RemoveAll(SubSeq(s, Len(p) + 1, Len(s)), p)
         ELSE <<Head(s)>> \o RemoveAll(Tail(s), p)

Occurs(p, s) == \E k \in 0..(Len(s) - Len(p)) : SubSeq(s, k + 1, k + Len(p)) = p

RECURSIVE Trim(_)
\* s without leading and trailing white space
Trim(s) ==
    IF s = <<>> THEN s
    ELSE IF Head(s) \in WHITESPACE THEN Trim(Tail(s))
    ELSE IF s[Len(s)] \in WHITESPACE THEN Trim(SubSeq(s, 1, Len(s) - 1))
    ELSE s

\* the first manufacturer of the table that lists the extension
FirstManufacturer(ext) ==
    LET k == CHOOSE k \in DOMAIN SUPPORTED_RAW_IMAGE_EXT :
                /\ ext \in Range(SUPPORTED_RAW_IMAGE_EXT[k].exts)
                /\ \A j \in 1..(k - 1) : ext \notin Range(SUPPORTED_RAW_IMAGE_EXT[j].exts)
    IN  SUPPORTED_RAW_IMAGE_EXT[k].make

\* the value of a tag, the unknown sentinel standing for an absent key,
\* with its spaces removed
Spaceless(tag) == RemoveSpaces(IF tag = ABSENT THEN EXIF_UNKNOWN ELSE tag)

\* the make segment: the record's make, or the inferred manufacturer
MakeSegment(i) ==
    LET m == Spaceless(metadata_list[i].Make)
    IN  IF m = EXIF_UNKNOWN /\ ListTypeAt(i) = RAW_IMAGE_DICT
        THEN FirstManufacturer(ExtensionOf(metadata_list[i].SourceFile))
        ELSE m

\* the model with the make removed from it
StrippedModel(i) ==
    LET m == Spaceless(metadata_list[i].Model)
    IN  IF MakeSegment(i) # EXIF_UNKNOWN /\ Occurs(MakeSegment(i), m)
        THEN RemoveAll(m, MakeSegment(i))
        ELSE m

\* the model segment as the code leaves it: trimmed where the make was removed
ModelSegment(i) ==
    LET m == Spaceless(metadata_list[i].Model)
    IN  IF MakeSegment(i) # EXIF_UNKNOWN /\ Occurs(MakeSegment(i), m)
        THEN Trim(RemoveAll(m, MakeSegment(i)))
        ELSE m

ExtensionSegment(i) ==
    IF ListTypeAt(i) = THUMB_IMAGE_DICT THEN <<"t","h","m","b">>
    ELSE ExtensionOf(metadata_list[i].SourceFile)

\* C8 as stated: directoryKey is the lowercase of make_model_extension, make
\* and model with all spaces removed, the make removed from the model when it
\* is not the unknown sentinel and occurs in the model, the extension
\* lower-cased or 'thmb' for a promoted jpg.
C8_AsStated ==
    \A i \in DOMAIN units :
        Classified(i) =>
            DirectoryKeyAt(i) =
                Lower(MakeSegment(i) \o <<"_">> \o StrippedModel(i) \o <<"_">>
                      \o ExtensionSegment(i))

\* C8: directoryKey is the lowercase of make_model_extension, make and model
\* with all spaces removed, the make removed from the model when it is not the
\* unknown sentinel and occurs in the model and what is left trimmed of
\* leading and trailing white space, the extension lower-cased or 'thmb' for
\* a promoted jpg; make and model are stored in the record in that form.
C8_DirectoryKey ==
    \A i \in DOMAIN units :
        Classified(i) =>
            /\ units[i].metadata.Make = MakeSegment(i)
            /\ units[i].metadata.Model = ModelSegment(i)
            /\ DirectoryKeyAt(i) =
                  Lower(MakeSegment(i) \o <<"_">> \o ModelSegment(i) \o <<"_">>
                        \o ExtensionSegment(i))

\* C8 witness: the make was removed from a model and a tab was left in front
C8_Witness ==
    \E i \in DOMAIN units :
        /\ Classified(i)
        /\ metadata_list[i].Make = CANON
        /\ IsText(metadata_list[i].Model)
        /\ HasChar(metadata_list[i].Model, "\t")
        /\ ~HasChar(DirectoryKeyAt(i), "\t")
        /\ ListTypeAt(i) = THUMB_IMAGE_DICT

\* C9: when a record's make is absent or the unknown sentinel and the file is
\* RawImage, the make becomes the first manufacturer of the table, in its
\* fixed order, that lists the file's extension, and is never left unknown;
\* for the other classifications an unknown make stays 'unknown'.
C9_MakeInference ==
    \A i \in DOMAIN units :
        (Classified(i) /\ metadata_list[i].Make \in {ABSENT, EXIF_UNKNOWN}) =>
            LET ext == ExtensionOf(metadata_list[i].SourceFile)
                made == units[i].metadata.Make
            IN  IF ListTypeAt(i) = RAW_IMAGE_DICT
                THEN /\ made = FirstManufacturer(ext)
                     /\ made # EXIF_UNKNOWN
                     /\ \E k \in DOMAIN SUPPORTED_RAW_IMAGE_EXT :
                           /\ SUPPORTED_RAW_IMAGE_EXT[k].make = made
                           /\ ext \in Range(SUPPORTED_RAW_IMAGE_EXT[k].exts)
                     /\ SubSeq(DirectoryKeyAt(i), 1, Len(made) + 1)
                            = Lower(made) \o <<"_">>
                ELSE /\ made = EXIF_UNKNOWN
                     /\ SubSeq(DirectoryKeyAt(i), 1, 8) = EXIF_UNKNOWN \o <<"_">>

\* C9 witness: a .rw2 file without a make was given to Panasonic
C9_Witness ==
    \E i \in DOMAIN units :
        /\ Classified(i)
        /\ metadata_list[i].Make = ABSENT
        /\ ExtensionOf(metadata_list[i].SourceFile) = <<"r","w","2">>
        /\ units[i].metadata.Make = <<"P","a","n","a","s","o","n","i","c">>

\* what the claim says of an absent make and of an empty make or model, but
\* for the effect of the make on the model
AbsentAndEmptyTags(i) ==
    LET given == metadata_list[i]
        made == units[i].metadata.Make
        model == units[i].metadata.Model
        raw == ListTypeAt(i) = RAW_IMAGE_DICT
    IN  /\ given.Make = ABSENT =>
               made = IF raw THEN FirstManufacturer(ExtensionOf(given.SourceFile))
                      ELSE EXIF_UNKNOWN
        /\ given.Make = <<>> =>
               /\ made = <<>>
               /\ Head(DirectoryKeyAt(i)) = "_"
        /\ given.Model = <<>> =>
               /\ model = <<>>
               /\ DirectoryKeyAt(i) =
                      Lower(made) \o <<"_", "_">> \o ExtensionSegment(i)

\* C10: an absent make or model becomes the 'unknown' sentinel (and a RAW
\* file's make is then inferred); a present but empty one becomes an empty
\* segment of directoryKey, starts no inference, and leaves the model
\* unchanged by the make-stripping step.
C10_AbsentOrEmptyTags ==
    \A i \in DOMAIN units :
        Classified(i) =>
            /\ AbsentAndEmptyTags(i)
            /\ metadata_list[i].Model = ABSENT => units[i].metadata.Model = EXIF_UNKNOWN
            /\ metadata_list[i].Make = <<>> =>
                   units[i].metadata.Model = Spaceless(metadata_list[i].Model)

(***************************************************************************)
(* C11 - C14: the classification stage                                     *)
(***************************************************************************)
\* the file-name set holds <base>.<raw extension>, letter case ignored
RawSiblingIn(names, base) ==
    \E n \in names :
        /\ ExtensionOf(n) \in supported_raw_image_ext_list
        /\ Lower(BaseOf(n)) = Lower(base)

\* the classification of a file name within a file-name set, "" for none
ClassOf(name, names) ==
    LET ext == ExtensionOf(name)
    IN  IF ext \in supported_raw_image_ext_list THEN RAW_IMAGE_DICT
        ELSE IF ext = <<"j","p","g">>
        THEN IF RawSiblingIn(names, BaseOf(name)) THEN THUMB_IMAGE_DICT
             ELSE COMPRESSED_IMAGE_DICT
        ELSE IF ext \in Range(SUPPORTED_COMPRESSED_IMAGE_EXT_LIST) THEN COMPRESSED_IMAGE_DICT
        ELSE IF ext \in Range(SUPPORTED_COMPRESSED_VIDEO_EXT_LIST) THEN COMPRESSED_VIDEO_DICT
        ELSE ""

\* the (classification, directoryKey) pair that belongs to a record of this
\* content within this file-name set, by the rules of the specification;
\* NoItem for a record that is not classified: no usable SourceFile, no
\* supported type, or a tag that is not text.  Nothing else is read.
PairOf(record, names) ==
    LET name == record.SourceFile
        class == ClassOf(name, names)
        m == Spaceless(record.Make)
        make == IF m = EXIF_UNKNOWN /\ class = RAW_IMAGE_DICT
                THEN FirstManufacturer(ExtensionOf(name))
                ELSE m
        o == Spaceless(record.Model)
        model == IF make # EXIF_UNKNOWN /\ Occurs(make, o)
                 THEN Trim(RemoveAll(o, make))
                 ELSE o
        ext == IF class = THUMB_IMAGE_DICT THEN <<"t","h","m","b">> ELSE ExtensionOf(name)
    IN  IF /\ IsText(name) /\ name # <<>>
           /\ class # ""
           /\ record.CreateDate # NONSTR
           /\ record.Make \notin {NONSTR, NONSTR_FALSY}
           /\ record.Model \notin {NONSTR, NONSTR_FALSY}
        THEN [list_type |-> class,
              dir_name |-> Lower(make \o <<"_">> \o model \o <<"_">> \o ext)]
        ELSE NoItem

\* C11: classification is deterministic: the (classification, directoryKey)
\* pair of a record is a function of the content of the record and of the
\* file-name set alone.  Whatever the record's position in the metadata
\* list, and whichever records were classified before it, are being retried
\* or are still to be classified, a classified record has the pair PairOf
\* gives for its content and the file-name set, and a record that is left
\* out has none; so two invocations with equal content and equal file-name
\* set, in this run or another, return the same pair.
C11_ClassificationDeterministic ==
    \A i \in DOMAIN units :
        /\ Classified(i) =>
              units[i].item = PairOf(metadata_list[i], Range(filtered_list))
        /\ (units[i].state \in {"filtered", "dropped"}) =>
              PairOf(metadata_list[i], Range(filtered_list)) = NoItem

\* C11 witness: the provider listed a jpg in front of the RAW file of its
\* base name, against the order of the file list, and the jpg was
\* classified as a thumbnail while the RAW file was still to be classified
C11_Witness ==
    \E i, j \in DOMAIN units :
        /\ i < j
        /\ StrLess(metadata_list[j].SourceFile, metadata_list[i].SourceFile)
        /\ Classified(i)
        /\ ListTypeAt(i) = THUMB_IMAGE_DICT
        /\ units[j].state = "scheduled"
        /\ ClassOf(metadata_list[j].SourceFile, Range(filtered_list)) = RAW_IMAGE_DICT


\* the places <<g, d, p>> of the list collection lc
Places(lc) ==
    {<<g, d, p>> \in (DOMAIN lc) \X (1 .. MaxFiles) \X (1 .. MaxFiles) :
        /\ d \in DOMAIN lc[g].value
        /\ p \in DOMAIN lc[g].value[d].obj_list}

EntryAt(lc, pl) == lc[pl[1]].value[pl[2]].obj_list[pl[3]]

\* the list of the bucket (list_type, dir_name) of lc, empty without one
BucketList(lc, list_type, dir_name) ==
    LET hits == {<<g, d>> \in (DOMAIN lc) \X (1 .. MaxFiles) :
                    /\ d \in DOMAIN lc[g].value
                    /\ lc[g].key = list_type
                    /\ lc[g].value[d].directory = dir_name}
    IN  IF hits = {} THEN <<>>
        ELSE LET h == CHOOSE h \in hits : TRUE
             IN  lc[h[1]].value[h[2]].obj_list

BucketKeys(lc) ==
    {<<lc[g].key, lc[g].value[d].directory>> :
        <<g, d>> \in {x \in (DOMAIN lc) \X (1 .. MaxFiles) : x[2] \in DOMAIN lc[x[1]].value}}

\* one list per key; every emitted unit's record in the list of its own
\* key once and nowhere else; nothing else in any list; no empty list
ExactlyOneBucket ==
    /\ \A g, h \in DOMAIN list_collection :
          list_collection[g].key = list_collection[h].key => g = h
    /\ \A g \in DOMAIN list_collection :
          /\ list_collection[g].value # <<>>
          /\ \A d, e \in DOMAIN list_collection[g].value :
                /\ list_collection[g].value[d].obj_list # <<>>
                /\ list_collection[g].value[d].directory =
                       list_collection[g].value[e].directory => d = e
    /\ \A i \in DOMAIN units :
          LET at == {pl \in Places(list_collection) :
                        EntryAt(list_collection, pl) = units[i].metadata}
          IN  IF Classified(i)
              THEN /\ Cardinality(at) = 1
                   /\ \A pl \in at :
                         /\ list_collection[pl[1]].key = ListTypeAt(i)
                         /\ list_collection[pl[1]].value[pl[2]].directory = DirectoryKeyAt(i)
              ELSE at = {}
    /\ Cardinality(Places(list_collection)) =
           Cardinality({i \in DOMAIN units : Classified(i)})

\* a step changes the lists only by putting the record of the one unit that
\* completed in it at the end of the list of that unit's key
AppendedOnCompletion ==
    LET done == {i \in DOMAIN units' :
                    /\ units'[i].state = "emitted"
                    /\ ~(i \in DOMAIN units /\ units[i].state = "emitted")}
    IN  IF done = {}
        THEN list_collection' = list_collection
        ELSE \E i \in done :
                /\ done = {i}
                /\ \A k \in BucketKeys(list_collection) \cup BucketKeys(list_collection') :
                      BucketList(list_collection', k[1], k[2]) =
                          IF k = <<units'[i].item.list_type, units'[i].item.dir_name>>
                          THEN Append(BucketList(list_collection, k[1], k[2]),
                                      units'[i].metadata)
                          ELSE BucketList(list_collection, k[1], k[2])

\* C12: under every interleaving and with the retry, each classified record
\* is in exactly one bucket exactly once, the buckets are keyed by
\* (classification, directoryKey) with one list per key, and a list holds its
\* records in the order their units completed: records are only ever added
\* at the end, never reordered or removed.
C12_BucketsExactlyOnceInCompletionOrder ==
    /\ []ExactlyOneBucket
    /\ [][AppendedOnCompletion]_vars

\* C12 witness: a bucket holds two records, the one later in the metadata
\* list first because its unit completed first
C12_Witness ==
    \E i, j \in DOMAIN units :
        /\ i < j
        /\ Classified(i) /\ Classified(j)
        /\ units[i].item = units[j].item
        /\ BucketList(list_collection, ListTypeAt(i), DirectoryKeyAt(i)) =
               <<units[j].metadata, units[i].metadata>>


\* C13: a classification unit whose invocation raises is retried up to two
\* additional times: it has been attempted exactly three times when it is
\* given up, and no unit is ever attempted more than three times.
C13_ThreeAttempts ==
    \A i \in DOMAIN units :
        /\ units[i].attempts <= 3
        /\ units[i].state = "dropped" => units[i].attempts = 3


\* what _process_metadata does with record i of the metadata list on its own
Alone(i) ==
    process_metadata(metadata_list[i], filtered_list,
                     extract_directory_info(dir_name_to_extract))

\* C14: a unit that still fails after the retry is dropped and nothing more:
\* its record is in no bucket and is not counted as processed, the stage
\* signals completion and never an error, and the other records are
\* classified and bucketed as they are without it: each bucket holds exactly
\* the records that belong to it of the units that are not failing.
C14_DroppedUnitIsIsolated ==
    LET places == Places(list_collection)
        counted == Cardinality({i \in DOMAIN units : units[i].state = "emitted"})
    IN  /\ pc = "wait" =>
              \A a \in {<<i, Alone(i)>> : i \in DOMAIN units} :
                  IF a[2].raised
                  THEN /\ units[a[1]].state \in {"scheduled", "dropped"}
                       /\ \A pl \in places :
                             EntryAt(list_collection, pl).SourceFile #
                                 metadata_list[a[1]].SourceFile
                  ELSE units[a[1]].state # "scheduled" =>
                          /\ Classified(a[1]) <=> a[2].classified
                          /\ Classified(a[1]) =>
                                \E pl \in places :
                                    /\ EntryAt(list_collection, pl) = a[2].metadata
                                    /\ list_collection[pl[1]].key = a[2].list_type
                                    /\ list_collection[pl[1]].value[pl[2]].directory =
                                           a[2].dir_name
        /\ \A i \in DOMAIN units :
              units[i].state = "dropped" =>
                  /\ units[i].item = NoItem
                  /\ \A pl \in places :
                        EntryAt(list_collection, pl).SourceFile #
                            metadata_list[i].SourceFile
        /\ processed_count = counted
        /\ Cardinality(places) = counted
        /\ completion \in {"none", "pending", "result"}
        /\ (units # <<>> /\ \A i \in DOMAIN units : units[i].state # "scheduled")
              => completion = "result"
        /\ (\E i \in DOMAIN units : units[i].state = "dropped") =>
              (raised = "NoFilesToProcess" => list_collection = <<>>)

\* C14 witness: one unit was dropped and the run went on to rename the file
\* of the other to its end
C14_Witness ==
    /\ pc = "done"
    /\ raised = ""
    /\ \E i, j \in DOMAIN units :
          /\ units[i].state = "dropped"
          /\ Classified(j)
    /\ processed_count = 1
    /\ IoHas("rename")


(***************************************************************************)
(* C15 - C17: the barrier and the renaming of a group                      *)
(***************************************************************************)
\* the second pass has begun: a group was taken up, a sequence number was
\* assigned, or a directory was made or a file renamed
SecondPassBegun ==
    \/ group > 0
    \/ rename_tasks # <<>>
    \/ IoHas("mkdir")
    \/ IoHas("rename")
    \/ IoHas("convert")

\* C15: no sequence number is assigned, no destination directory made and
\* no rename issued until every classification unit has completed or been
\* dropped; from then on the buckets, whose lists give the numbers, do not
\* change any more.
C15_BarrierBeforeRenaming ==
    /\ [](SecondPassBegun => ClassificationFinished)
    /\ [][(SecondPassBegun \/ SecondPassBegun') =>
              /\ list_collection' = list_collection
              /\ units' = units
              /\ processed_count' = processed_count]_vars

\* C15 witness: a file was renamed in a run in which one unit was attempted
\* again after a failure before it was given up
C15_Witness ==
    /\ IoHas("rename")
    /\ \E i, j \in DOMAIN units :
          /\ units[i].state = "dropped"
          /\ units[i].attempts > 1
          /\ Classified(j)
    /\ rename_tasks = <<>>
    /\ gstep # "rename"


\* the renames of the group in hand have all finished (asyncio.gather returned)
GroupRenamed ==
    /\ pc = "groups"
    /\ gstep = "rename"
    /\ rename_tasks = <<>>

\* the part of a directory key after its last "_"
KeyExtension(key) ==
    LET u == CHOOSE u \in DOMAIN key :
                 /\ key[u] = "_"
                 /\ \A v \in (u + 1) .. Len(key) : key[v] # "_"
    IN  [v \in 1 .. (Len(key) - u) |-> key[u + v]]

\* the number n < 1000 in three digits
ThreeDigits(n) ==
    <<DigitChar(n \div 100), DigitChar((n \div 10) % 10), DigitChar(n % 10)>>

IsLowercase(s) == \A k \in DOMAIN s : s[k] \notin Range(UPPER)

\* <normalizedDate>_<projectName>_<seq>.<ext> for record k of a bucket
NumberedName(entry, k) ==
    entry.obj_list[k].CreateDate \o <<"_">> \o project_name \o <<"_">>
        \o ThreeDigits(k) \o <<".">> \o KeyExtension(entry.directory)

\* the records of a bucket whose file is no longer in the image directory
Renamed(entry) ==
    {k \in DOMAIN entry.obj_list :
        \A f \in fs[DOT] : f.name # entry.obj_list[k].SourceFile}

\* C16, as stated: after the renaming of a group every bucket directory
\* holds the names numbered _001 to _N, each once, whatever became of the
\* renames.
C16_AsStated ==
    GroupRenamed =>
        \A d \in DOMAIN list_collection[group].value :
            LET entry == list_collection[group].value[d]
            IN  /\ entry.directory \in DOMAIN fs
                /\ fs[entry.directory] =
                       {File(Lower(NumberedName(entry, k)), entry.obj_list[k].SourceFile) :
                           k \in DOMAIN entry.obj_list}

\* a file this run found in the image directory, not one an earlier run left
OfThisRun(f) == f.src = <<>> \/ Head(f.src) # "~"

\* C16: record k of a bucket list is given number k, in three digits, in the
\* lowercase name <normalizedDate>_<projectName>_<seq>.<ext>, ext being the
\* last segment of the directory key; after the renaming of the group the
\* files this run has put into the bucket's directory are exactly the records
\* whose rename succeeded, each under the name it was given and under no
\* other: _001 to _N without gap or duplicate when no rename of the bucket
\* failed, a failed rename leaving its number unused.  Files an earlier run
\* left in the directory stay beside them, under names of their own.
C16_SequentialNumbering ==
    GroupRenamed =>
        \A d \in DOMAIN list_collection[group].value :
            LET entry == list_collection[group].value[d]
                put == {f \in fs[entry.directory] : OfThisRun(f)}
                ext == KeyExtension(entry.directory)
            IN  /\ entry.directory \in DOMAIN fs
                /\ put = {File(Lower(NumberedName(entry, k)), entry.obj_list[k].SourceFile) :
                              k \in Renamed(entry)}
                /\ Cardinality(put) = Cardinality(Renamed(entry))
                /\ Cardinality(Names(fs[entry.directory])) = Cardinality(fs[entry.directory])
                /\ \A f \in put : IsLowercase(f.name)
                /\ (Renamed(entry) = DOMAIN entry.obj_list) =>
                      \A k \in 1 .. Len(entry.obj_list) :
                          \E f \in put :
                              /\ f.src = entry.obj_list[k].SourceFile
                              /\ SubSeq(f.name, Len(f.name) - Len(ext) - 4,
                                        Len(f.name) - Len(ext) - 1)
                                     = <<"_">> \o ThreeDigits(k)
                              /\ \A g \in put \ {f} :
                                    SubSeq(g.name, Len(g.name) - Len(ext) - 4,
                                           Len(g.name) - Len(ext) - 1)
                                        # <<"_">> \o ThreeDigits(k)

\* C16 witness: of a bucket of two records the second was renamed, as _002,
\* into a directory that held a file _001 of an earlier run, and the rename
\* of the first failed
C16_Witness ==
    /\ GroupRenamed
    /\ \E d \in DOMAIN list_collection[group].value :
          LET entry == list_collection[group].value[d]
          IN  /\ Len(entry.obj_list) = 2
              /\ Renamed(entry) = {2}
              /\ \E f \in fs[entry.directory] : ~OfThisRun(f)
              /\ \E f \in fs[entry.directory] : OfThisRun(f)


\* the records of the groups taken up so far, as <<group, directory, place>>
RecordsSoFar ==
    {pl \in Places(list_collection) : pl[1] <= group}

\* the file of the record at pl is where it was, under its original name
LeftInPlace(pl) ==
    LET old == EntryAt(list_collection, pl).SourceFile
    IN  File(old, old) \in fs[DOT]

\* the file of the record at pl is in its bucket's directory under the name
\* with the number of its place in the list, and no longer where it was
RenamedAsAssigned(pl) ==
    LET entry == list_collection[pl[1]].value[pl[2]]
        old == entry.obj_list[pl[3]].SourceFile
    IN  /\ entry.directory \in DOMAIN fs
        /\ File(Lower(NumberedName(entry, pl[3])), old) \in fs[entry.directory]
        /\ \A f \in fs[DOT] : f.name # old /\ f.src # old

\* C17: a rename that fails with an I/O error is caught and logged for that
\* file only: the step leaves the file where it was and raises nothing, the
\* run goes on, and when the renames of a group are through every file of
\* the group is either renamed with the number it was assigned or, for each
\* failure one, left at its original path.
C17_RenameFailureIsolated ==
    /\ [][rename_failures' # rename_failures =>
              /\ rename_failures' = rename_failures + 1
              /\ fs' = fs
              /\ raised' = raised
              /\ pc' = pc
              /\ gstep' = gstep
              /\ rename_tasks' = Tail(rename_tasks)]_vars
    /\ [](GroupRenamed =>
              /\ \A pl \in RecordsSoFar :
                    pl[1] = group => (LeftInPlace(pl) \/ RenamedAsAssigned(pl))
              /\ Cardinality({pl \in RecordsSoFar : LeftInPlace(pl)}) = rename_failures)
    /\ [](rename_failures > 0 => raised \in {"", "ConversionError", "OSError"})
    /\ []((rename_failures > 0 /\ raised = "OSError") => gstep = "convert")

\* C17 witness: the run ended without an error after one rename had failed
\* and the other file was renamed
C17_Witness ==
    /\ pc = "done"
    /\ raised = ""
    /\ rename_failures = 1
    /\ \E pl, pm \in Places(list_collection) :
          /\ LeftInPlace(pl)
          /\ RenamedAsAssigned(pm)


(***************************************************************************)
(* C18 - C20: the conversion jobs                                          *)
(***************************************************************************)
\* the directory keys of the RAW group in bucket order, none without one
RawKeys ==
    IF \E g \in DOMAIN list_collection : list_collection[g].key = RAW_IMAGE_DICT
    THEN LET g == CHOOSE g \in DOMAIN list_collection :
                      list_collection[g].key = RAW_IMAGE_DICT
         IN  [d \in DOMAIN list_collection[g].value |->
                 list_collection[g].value[d].directory]
    ELSE <<>>

\* the key with its extension segment replaced by dng
DngKey(key) ==
    [v \in 1 .. (Len(key) - Len(KeyExtension(key))) |-> key[v]] \o <<"d", "n", "g">>

\* one job per key that does not end in dng, in the order of the keys
RECURSIVE JobsFor(_)
JobsFor(keys) ==
    IF keys = <<>> THEN <<>>
    ELSE (IF KeyExtension(Head(keys)) = <<"d", "n", "g">>
          THEN <<>>
          ELSE << [src |-> Head(keys), dst |-> DngKey(Head(keys))] >>)
         \o JobsFor(Tail(keys))

\* the number of entries e of the I/O log
IoCount(e) == Cardinality({k \in DOMAIN io : io[k] = e})

\* the conversion stage of the RAW group has been entered
ConversionEntered == gstep = "convert" \/ convert_list # <<>>

\* C18: the conversion job list holds exactly one job (source the key,
\* destination the key with its last segment replaced by dng) for every RAW
\* bucket key that does not end in dng, in bucket order, and none for a key
\* ending in dng; with an empty list neither the converter nor the cleanup
\* is invoked.
C18_ConversionJobList ==
    /\ ConversionEntered =>
          /\ convert_list = JobsFor(RawKeys)
          /\ convert_list # <<>>
          /\ DOMAIN jobs = DOMAIN convert_list
    /\ (IoHas("convert") \/ IoHas("rmtree") \/ IoHas("remove")) => ConversionEntered
    /\ IoCount("convert") <= Len(convert_list)
    /\ (pc = "done" /\ raised = "") =>
          /\ convert_list = JobsFor(RawKeys)
          /\ IoCount("convert") = Len(JobsFor(RawKeys))

\* C18 witness: a RAW group of two buckets, one of them of dng files, gave
\* one job, and the run ended
C18_Witness ==
    /\ pc = "done"
    /\ raised = ""
    /\ Len(RawKeys) = 2
    /\ Len(convert_list) = 1
    /\ \E d \in DOMAIN RawKeys : KeyExtension(RawKeys[d]) = <<"d", "n", "g">>
    /\ IoCount("convert") = 1


\* the conversion jobs in progress: convert_raw_to_dng was entered and
\* py_dng.convert() has not returned
InProgress == {j \in DOMAIN jobs : jobs[j] = "running"}

\* C19: conversion jobs are executed one after the other: at every moment
\* at most one job is in progress, and job k+1 is not started before job k
\* has finished.
C19_SequentialConversion ==
    /\ Cardinality(InProgress) <= 1
    /\ \A k \in DOMAIN jobs :
          (k + 1 \in DOMAIN jobs /\ jobs[k + 1] # "created") =>
              jobs[k] \in {"done", "failed"}


\* C20: a conversion job that raises is caught and logged, not propagated:
\* the run does not raise because of it, the other jobs are run, the
\* cleanup follows when all jobs have finished, and the remaining groups are
\* processed, so the run still comes to its end.
C20_ConversionFailureIsolated ==
    /\ raised # "ConversionError"
    /\ (\E j \in DOMAIN jobs : jobs[j] = "failed") => pc \in {"groups", "done"}
    /\ (pc \notin {"groups"} /\ \E j \in DOMAIN jobs : jobs[j] = "failed") =>
          /\ \A k \in DOMAIN jobs : jobs[k] \in {"done", "failed"}
          /\ group = Len(list_collection)


(***************************************************************************)
(* C21 - C22: the cleanup of the originals                                 *)
(***************************************************************************)
\* the step is the cleanup of line 874: every conversion task has returned
CleanupStep ==
    /\ pc = "groups"
    /\ gstep = "convert"
    /\ \A k \in DOMAIN jobs : jobs[k] = "done"
    /\ vars' # vars

\* the file has a counterpart of the same stem in the set of files dng
HasCounterpart(f, dng) == \E g \in dng : BaseOf(g.name) = BaseOf(f.name)

\* C21: for each (rawDir, dngDir) pair the cleanup compares the stems: when
\* every RAW stem has a DNG stem the RAW directory is removed, otherwise
\* the RAW directory is still there and holds exactly the RAW files whose
\* stem has no DNG counterpart.
C21_StemMatchedCleanup ==
    [][CleanupStep =>
          \A j \in DOMAIN convert_list :
              LET raw == fs[convert_list[j].src]
                  dng == fs[convert_list[j].dst]
              IN  IF \A f \in raw : HasCounterpart(f, dng)
                  THEN convert_list[j].src \notin DOMAIN fs'
                  ELSE /\ convert_list[j].src \in DOMAIN fs'
                       /\ fs'[convert_list[j].src] =
                              {f \in raw : ~HasCounterpart(f, dng)}]_vars

\* C21 witness: of the two files of a RAW directory the converted one was
\* deleted and the other is still there
C21_Witness ==
    /\ pc = "done"
    /\ raised = ""
    /\ IoHas("remove")
    /\ \E j \in DOMAIN convert_list :
          /\ convert_list[j].src \in DOMAIN fs
          /\ Cardinality(fs[convert_list[j].src]) = 1
          /\ Cardinality(fs[convert_list[j].dst]) = 1


\* the file f of the RAW directory of pair j is gone after the step
Deleted(j, f) ==
    \/ convert_list[j].src \notin DOMAIN fs'
    \/ f \notin fs'[convert_list[j].src]

\* the paired DNG directory of pair j holds the DNG file made from f
HasOwnDng(j, f) ==
    \E g \in fs[convert_list[j].dst] :
        /\ g.src = f.src
        /\ g.name = BaseOf(f.name) \o <<".", "d", "n", "g">>

\* C22: originals are deleted only on verified success: the cleanup removes
\* a RAW file only if the paired DNG directory holds a DNG file made by
\* converting that very file; a RAW file whose conversion gave nothing is
\* never deleted, whatever else the DNG directory holds.
C22_DeletedOnlyWhenConverted ==
    [][CleanupStep =>
          \A j \in DOMAIN convert_list :
              \A f \in fs[convert_list[j].src] :
                  Deleted(j, f) => HasOwnDng(j, f)]_vars


(***************************************************************************)
(* C23: the entry point                                                    *)
(***************************************************************************)
\* C23: run_pipeline accepts, besides logger and image_dir, a DNG
\* compression option (lossless or uncompressed) and a preview flag: the
\* call with only logger and image_dir and the call of the CLI with all four
\* are accepted and start the run for the directory given.
C23_EntryPointAcceptsOptions ==
    /\ raised # "TypeError"
    /\ pc # "call" => op_dir = call.image_dir


(***************************************************************************)
(* C24: the working directory                                              *)
(***************************************************************************)
\* the run has ended, by return or by exception
RunEnded ==
    pc \in {"done", "no_unprocessed", "no_classifiable", "failed", "validation_failed"}

\* C24: on every way out of a run that changed into the image directory the
\* working directory is the one the run was started in again; with the
\* image directory "." it is never changed.
C24_WorkingDirectoryRestored ==
    /\ RunEnded => cwd = home
    /\ (RunEnded /\ IoHas("chdir") /\ IoHas("listdir")) => io[Len(io)] = "chdir_back"
    /\ op_dir = DOT =>
          /\ cwd = home
          /\ ~IoHas("chdir")
          /\ ~IoHas("chdir_back")
    /\ (cwd # home) => (op_dir # DOT /\ IoHas("chdir") /\ ~RunEnded)

\* C24 witness: a run that had changed into the image directory ended with
\* an exception raised after files were renamed, back where it started
C24_Witness ==
    /\ pc = "failed"
    /\ raised # ""
    /\ IoHas("chdir")
    /\ IoHas("rename")
    /\ cwd = home


(***************************************************************************)
(* C25 - C26: the record and the shared state of the classification stage  *)
(***************************************************************************)
\* C25: classification leaves the record it was given unchanged: after any
\* number of attempts the record of a unit is the record the metadata
\* provider returned, so that a retry classifies the original content.
C25_RecordUnchanged ==
    \A i \in DOMAIN units :
        units[i].attempts > 0 => units[i].metadata = metadata_list[i]


\* C26: no update of the shared classification state is lost, in whatever
\* order the units complete: once the stage has signalled completion the
\* processed counter is the number of classified units and the number of
\* entries of all bucket lists, and the counter never exceeds the number of
\* metadata records.
C26_NoLostUpdates ==
    /\ processed_count <= Len(metadata_list)
    /\ processed_count <= Cardinality(Places(list_collection))
    /\ completion = "result" =>
          /\ processed_count = Cardinality({i \in DOMAIN units : Classified(i)})
          /\ processed_count = Cardinality(Places(list_collection))

C26_Witness ==
    /\ pc = "wait"
    /\ completion = "result"
    /\ processed_count = 2
    /\ Cardinality(Places(list_collection)) = 2



(***************************************************************************)
(* C27: the order of renaming, conversion and cleanup in the RAW group     *)
(***************************************************************************)
\* a conversion job starts in this step
JobStarts == \E j \in DOMAIN jobs' : jobs'[j] = "running" /\ jobs[j] = "created"

\* a file of the RAW directory of a conversion job is deleted in this step
RawFileDeleted ==
    \E j \in DOMAIN convert_list :
        /\ convert_list[j].src \in DOMAIN fs
        /\ \E f \in fs[convert_list[j].src] : Deleted(j, f)

\* the cleanup issues a deletion in this step
DeletionIssued ==
    \E e \in {"rmtree", "remove"} :
        Cardinality({k \in DOMAIN io' : io'[k] = e}) > IoCount(e)

\* C27: within the RAW group every rename of the group has finished, with
\* success or failure, before the first conversion job starts; the cleanup
\* starts only after every conversion job of the group has finished; no RAW
\* file is deleted while a conversion job is running.
C27_RawGroupOrdering ==
    [][/\ JobStarts => /\ rename_tasks = <<>>
                       /\ list_collection[group].key = RAW_IMAGE_DICT
                       /\ ~IoHas("rmtree") /\ ~IoHas("remove")
       /\ (RawFileDeleted \/ DeletionIssued) =>
              /\ jobs # <<>>
              /\ \A j \in DOMAIN jobs : jobs[j] = "done"
              /\ rename_tasks = <<>>]_vars

\* C27 witness: the RAW group was renamed, a file failing to rename, then
\* converted, then cleaned up
C27_Witness ==
    /\ pc = "done"
    /\ rename_failures > 0
    /\ IoHas("rename")
    /\ IoHas("convert")
    /\ IoHas("rmtree") \/ IoHas("remove")
    /\ \A j \in DOMAIN jobs : jobs[j] = "done"



(***************************************************************************)
(* C28: termination                                                        *)
(***************************************************************************)
\* the completion signal is set in this step
CompletionSet == completion' # completion /\ completion' \in {"result", "error"}

\* the scheduled unit i can run: its next attempt is a step of the run
CanRun(i) ==
    /\ units[i].state = "scheduled"
    /\ UnitAfter(units[i],
                 process_metadata(units[i].metadata, filtered_list,
                                  extract_directory_info(dir_name_to_extract)))
           # units[i]

\* C28: every run terminates.  For every metadata list, the empty one
\* included, and every mix of classified, unclassifiable and always-failing
\* units the wait for the completion of the classification stage ends, the
\* completion signal being set exactly once, and the run reaches Done,
\* NoUnprocessedFiles or a raised error.
C28_EveryRunTerminates ==
    /\ <>RunEnded
    /\ [](UnitScheduled => \E i \in DOMAIN units : CanRun(i))
    /\ (pc = "wait") ~> (pc # "wait" /\ completion = "result")
    /\ [](RunEnded => (pc \in {"done", "no_unprocessed"} \/ raised # ""))
    /\ [][/\ CompletionSet => completion \in {"none", "pending"}
          /\ completion \in {"result", "error"} => completion' = completion]_vars

\* C28 witness: a run with a unit that failed on every attempt and a unit
\* that was classified has reached Done
C28_Witness ==
    /\ pc = "done"
    /\ completion = "result"
    /\ \E i, j \in DOMAIN units :
          /\ units[i].state = "dropped"
          /\ units[i].attempts = RETRY_COUNT
          /\ units[j].state = "emitted"



(***************************************************************************)
(* C29 - C30: the destinations of conversions and renames                  *)
(***************************************************************************)
\* C29: the conversion jobs of one run never share a destination: two
\* different RAW bucket keys that yield jobs have different DNG destination
\* directories, and no job's destination is a bucket directory of the same
\* run.
C29_DistinctDestinations ==
    ConversionEntered =>
        /\ \A j, k \in DOMAIN convert_list :
              j # k => convert_list[j].dst # convert_list[k].dst
        /\ \A j \in DOMAIN convert_list :
              \A b \in BucketKeys(list_collection) : b[2] # convert_list[j].dst


\* a rename moves a file in this step
RenameStep ==
    /\ pc = "groups"
    /\ gstep = "rename"
    /\ rename_tasks # <<>>
    /\ fs' # fs

\* C30: a rename never replaces an existing file: the destinations assigned
\* within one run are pairwise distinct, and no rename targets a path at
\* which a file exists, a file left in a bucket directory by an earlier run
\* over the same directory included.
C30_RenameNeverReplaces ==
    /\ [](\A j, k \in DOMAIN rename_tasks :
             j # k => <<rename_tasks[j].dir, rename_tasks[j].new>>
                          # <<rename_tasks[k].dir, rename_tasks[k].new>>)
    /\ [][RenameStep =>
             LET t == Head(rename_tasks)
             IN  \A x \in fs[t.dir] : x.name # t.new]_vars

=============================================================================
